---- MODULE Spec2Model ----
(***************************************************************************)
(* Border assembly of super-table: SpanTracker (utils/spanning.rs) and the *)
(* border drawer draw_borders (utils/formatting/borders.rs).               *)
(*                                                                         *)
(* A rendered line is a sequence of segments; a segment carries the glyphs *)
(* it contributes (text) and, as bookkeeping, the column it was drawn for  *)
(* and its role.  The string the code returns is the concatenation of the  *)
(* texts.  A glyph is named after the TableComponent it is read from; a    *)
(* component missing from the style map yields " " (style_or_default).     *)
(* Column and row indices are 0-based as in the code.                      *)
(***************************************************************************)
EXTENDS Integers, Sequences, FiniteSets, TLC

\* ---------------------------------------------------------------- bounds
NumCols == 3
MaxDataRows == 2
MaxColspan == 2
MaxRowspan == 2
MaxHidden == 1
MaxLines == 2
MaxBottomRows == 3
MaxAlignRowspan == 3
MaxContentWidth == 7
MaxRowHeight == 4

VARIABLES table, display_info, rows, span_tracker, lines, pc, cur_row, fmt

vars == <<table, display_info, rows, span_tracker, lines, pc, cur_row, fmt>>

\* ------------------------------------------------------------ components
TopComponents == {"TopLeftCorner", "TopBorder", "TopBorderIntersections", "TopRightCorner"}
BottomComponents ==
  {"BottomLeftCorner", "BottomBorder", "BottomBorderIntersections", "BottomRightCorner"}
LeftComponents ==
  {"TopLeftCorner", "LeftBorder", "LeftBorderIntersections", "LeftHeaderIntersection",
   "BottomLeftCorner"}
RightComponents ==
  {"TopRightCorner", "RightBorder", "RightBorderIntersections", "RightHeaderIntersection",
   "BottomRightCorner"}
HorizontalComponents ==
  {"LeftBorderIntersections", "HorizontalLines", "MiddleIntersections",
   "RightBorderIntersections"}
VerticalComponents ==
  {"TopBorderIntersections", "MiddleHeaderIntersections", "VerticalLines",
   "MiddleIntersections", "BottomBorderIntersections"}
HeaderComponents ==
  {"LeftHeaderIntersection", "HeaderLines", "MiddleHeaderIntersections",
   "RightHeaderIntersection"}

TableComponent ==
  TopComponents \cup BottomComponents \cup LeftComponents \cup RightComponents
    \cup HorizontalComponents \cup VerticalComponents \cup HeaderComponents
    \cup {"MiddleHeaderMergeIntersection", "BottomBorderColspanIntersections"}

VerticalAlignment == {"Top", "Middle", "Bottom"}
ContentArrangement == {"Disabled", "Dynamic", "DynamicFullWidth"}

\* HashMap iteration order is unspecified: a scan returns the first match in
\* some order.  The model draws the order per call from these two, which give
\* either outcome whenever two entries match the same query.
IterOrders == {"asc", "desc"}

style_exists(tbl, component) == component \in tbl.style

style_or_default(tbl, component) ==
  IF component \in tbl.style THEN component ELSE " "

\* ----------------------------------------------------------- SpanTracker
None == <<>>

SpanTrackerNew == [active_spans |-> {}, ended_spans |-> {}]

SameKey(e, row, col) == e.start_row = row /\ e.start_col = col

KeyLess(a, b) ==
  \/ a.start_row < b.start_row
  \/ a.start_row = b.start_row /\ a.start_col < b.start_col

\* first entry of S met by an iteration in order ord
FirstIn(S, ord) ==
  CHOOSE e \in S : \A f \in S \ {e} :
    IF ord = "asc" THEN KeyLess(e, f) ELSE KeyLess(f, e)

InColspan(e, col_index) ==
  e.start_col <= col_index /\ col_index < e.start_col + e.colspan

FirstResult(S, ord) ==
  IF S = {} THEN None
  ELSE LET e == FirstIn(S, ord) IN <<e.start_row, e.start_col, e.colspan>>

\* mutant: a span also occupies the row it starts at
is_occupied_from_start_row(trk, ord, row_index, col_index) ==
  LET m == {e \in trk.active_spans :
              e.start_row <= row_index /\ InColspan(e, col_index)}
  IN IF m = {} THEN None
     ELSE LET e == FirstIn(m, ord) IN <<e.remaining_rows, e.colspan>>

is_occupied(trk, ord, row_index, col_index) ==
  LET m == {e \in trk.active_spans :
              e.start_row < row_index /\ InColspan(e, col_index)}
  IN IF m = {} THEN None
     ELSE LET e == FirstIn(m, ord) IN <<e.remaining_rows, e.colspan>>

is_col_occupied_by_rowspan(trk, ord, row_index, col_index) ==
  is_occupied(trk, ord, row_index, col_index) # None

\* mutant: the row the span starts at counts among the rows left to it
register_rowspan_counts_start_row(trk, row_index, col_index, rowspan, colspan, vertical_alignment) ==
  IF rowspan > 1
  THEN [trk EXCEPT !.active_spans =
          {e \in @ : ~SameKey(e, row_index, col_index)} \cup
          {[start_row |-> row_index, start_col |-> col_index,
            original_rowspan |-> rowspan, remaining_rows |-> rowspan,
            colspan |-> colspan, vertical_alignment |-> vertical_alignment]}]
  ELSE trk

\* mutant: the span is entered in the ended map as soon as it is registered
register_rowspan_also_ended(trk, row_index, col_index, rowspan, colspan, vertical_alignment) ==
  IF rowspan > 1
  THEN [active_spans |->
          {e \in trk.active_spans : ~SameKey(e, row_index, col_index)} \cup
          {[start_row |-> row_index, start_col |-> col_index,
            original_rowspan |-> rowspan, remaining_rows |-> rowspan - 1,
            colspan |-> colspan, vertical_alignment |-> vertical_alignment]},
        ended_spans |->
          {x \in trk.ended_spans : ~SameKey(x, row_index, col_index)} \cup
          {[start_row |-> row_index, start_col |-> col_index,
            end_row |-> row_index + rowspan - 1, colspan |-> colspan]}]
  ELSE trk

register_rowspan(trk, row_index, col_index, rowspan, colspan, vertical_alignment) ==
  IF rowspan > 1
  THEN [trk EXCEPT !.active_spans =
          {e \in @ : ~SameKey(e, row_index, col_index)} \cup
          {[start_row |-> row_index, start_col |-> col_index,
            original_rowspan |-> rowspan, remaining_rows |-> rowspan - 1,
            colspan |-> colspan, vertical_alignment |-> vertical_alignment]}]
  ELSE trk

\* mutant: Bottom pushes the content down by the whole span
ContentOffsetOf_BottomByTotalRows(e, content_height) ==
  LET total_rows == e.original_rowspan
      padding_rows == IF total_rows >= content_height
                      THEN total_rows - content_height ELSE 0
  IN CASE e.vertical_alignment = "Top" -> 0
       [] e.vertical_alignment = "Middle" -> padding_rows \div 2
       [] e.vertical_alignment = "Bottom" -> total_rows

ContentOffsetOf(e, content_height) ==
  LET total_rows == e.original_rowspan
      padding_rows == IF total_rows >= content_height
                      THEN total_rows - content_height ELSE 0
  IN CASE e.vertical_alignment = "Top" -> 0
       [] e.vertical_alignment = "Middle" -> padding_rows \div 2
       [] e.vertical_alignment = "Bottom" -> padding_rows

\* mutant: a span that starts above start_row matches too
get_rowspan_content_offset_from_above(trk, ord, start_row, col_index, content_height) ==
  LET m == {e \in trk.active_spans :
              e.start_row <= start_row /\ InColspan(e, col_index)}
  IN IF m = {} THEN 0 ELSE ContentOffsetOf(FirstIn(m, ord), content_height)

get_rowspan_content_offset(trk, ord, start_row, col_index, content_height) ==
  LET m == {e \in trk.active_spans :
              e.start_row = start_row /\ InColspan(e, col_index)}
  IN IF m = {} THEN 0 ELSE ContentOffsetOf(FirstIn(m, ord), content_height)

\* mutant: the counters are decremented before the expired spans are moved
advance_row_decrement_first(trk, current_row) ==
  LET decremented == {IF e.start_row < current_row /\ e.remaining_rows > 0
                      THEN [e EXCEPT !.remaining_rows = @ - 1] ELSE e :
                        e \in trk.active_spans}
      expired == {e \in decremented : e.remaining_rows = 0}
      moved == {[start_row |-> e.start_row, start_col |-> e.start_col,
                 end_row |-> e.start_row + e.original_rowspan - 1,
                 colspan |-> e.colspan] : e \in expired}
  IN [active_spans |-> decremented \ expired,
      ended_spans |->
        {x \in trk.ended_spans :
           \A e \in expired : ~SameKey(x, e.start_row, e.start_col)} \cup moved]

\* mutant: an expired span is recorded as ended but stays in the active map
advance_row_expired_stay_active(trk, current_row) ==
  LET expired == {e \in trk.active_spans : e.remaining_rows = 0}
      moved == {[start_row |-> e.start_row, start_col |-> e.start_col,
                 end_row |-> e.start_row + e.original_rowspan - 1,
                 colspan |-> e.colspan] : e \in expired}
  IN [active_spans |->
        {IF e.start_row < current_row /\ e.remaining_rows > 0
         THEN [e EXCEPT !.remaining_rows = @ - 1] ELSE e : e \in trk.active_spans},
      ended_spans |->
        {x \in trk.ended_spans :
           \A e \in expired : ~SameKey(x, e.start_row, e.start_col)} \cup moved]

advance_row(trk, current_row) ==
  LET expired == {e \in trk.active_spans : e.remaining_rows = 0}
      moved == {[start_row |-> e.start_row, start_col |-> e.start_col,
                 end_row |-> e.start_row + e.original_rowspan - 1,
                 colspan |-> e.colspan] : e \in expired}
      kept == trk.active_spans \ expired
  IN [active_spans |->
        {IF e.start_row < current_row /\ e.remaining_rows > 0
         THEN [e EXCEPT !.remaining_rows = @ - 1] ELSE e : e \in kept},
      ended_spans |->
        {x \in trk.ended_spans :
           \A e \in expired : ~SameKey(x, e.start_row, e.start_col)} \cup moved]

get_rowspan_start(trk, ord, row_index, col_index) ==
  FirstResult({e \in trk.active_spans :
                 e.start_row < row_index /\ InColspan(e, col_index)}, ord)

get_rowspan_start_including_self(trk, ord, row_index, col_index) ==
  FirstResult({e \in trk.active_spans :
                 e.start_row <= row_index /\ InColspan(e, col_index)}, ord)

\* mutant: a span that starts at the current row is not seen as continuing
get_rowspan_start_at_row_excluding_self(trk, ord, row_index, col_index) ==
  FirstResult({e \in trk.active_spans :
                 /\ e.start_row < row_index /\ e.remaining_rows > 0
                 /\ InColspan(e, col_index)}, ord)

get_rowspan_start_at_row(trk, ord, row_index, col_index) ==
  FirstResult({e \in trk.active_spans :
                 /\ e.start_row <= row_index /\ e.remaining_rows > 0
                 /\ InColspan(e, col_index)}, ord)

get_rowspan_including_row(trk, ord, row_index, col_index) ==
  FirstResult({e \in trk.active_spans :
                 /\ e.start_row <= row_index
                 /\ e.start_row + e.original_rowspan - 1 >= row_index
                 /\ InColspan(e, col_index)}, ord)

\* mutant: spans that have ended are not looked up
get_rowspan_at_last_row_active_only(trk, ord, row_index, col_index) ==
  get_rowspan_including_row(trk, ord, row_index, col_index)

\* mutant: an ended span is found whatever the row it ended at
get_rowspan_at_last_row_any_ended(trk, ord, row_index, col_index) ==
  LET r == get_rowspan_including_row(trk, ord, row_index, col_index)
  IN IF r # None THEN r
     ELSE FirstResult({x \in trk.ended_spans :
                         x.start_row <= row_index /\ InColspan(x, col_index)}, ord)

get_rowspan_at_last_row(trk, ord, row_index, col_index) ==
  LET r == get_rowspan_including_row(trk, ord, row_index, col_index)
  IN IF r # None THEN r
     ELSE FirstResult({x \in trk.ended_spans :
                         /\ x.start_row <= row_index /\ x.end_row >= row_index
                         /\ InColspan(x, col_index)}, ord)

\* ------------------------------------------------------- line segments
Repeat(glyph, n) == [i \in 1..n |-> glyph]

\* part: "edge" (left/right end), "joint" (glyph before a column), "merged"
\* (border glyph in place of a joint), "fill" (border run of columns),
\* "space" (blank run of a continuing row-span), "piece" (content).
\* cols: the display_info indices the segment is drawn for (for a content
\* piece: its index in the line).
Seg(cols, part, text) == [cols |-> cols, part |-> part, text |-> text]

RECURSIVE Text(_)
Text(segs) == IF segs = <<>> THEN <<>> ELSE Head(segs).text \o Text(Tail(segs))

Width(segs) == Len(Text(segs))

OptSeg(cond, seg) == IF cond THEN <<seg>> ELSE <<>>

IsHidden(dinfo, c) == dinfo[c + 1].is_hidden
ColWidth(dinfo, c) == dinfo[c + 1].width

\* number of visible columns left of column c (visible_col_index in the code)
VisibleIndex(dinfo, c) == Cardinality({i \in 0..(c - 1) : ~IsHidden(dinfo, i)})

RECURSIVE SumWidths(_, _)
SumWidths(dinfo, S) ==
  IF S = {} THEN 0
  ELSE LET c == CHOOSE x \in S : TRUE
       IN ColWidth(dinfo, c) + SumWidths(dinfo, S \ {c})

\* ------------------------------------------------------- draw predicates
should_draw_top_border(tbl) == \E c \in TopComponents : style_exists(tbl, c)
should_draw_bottom_border(tbl) == \E c \in BottomComponents : style_exists(tbl, c)
should_draw_left_border(tbl) == \E c \in LeftComponents : style_exists(tbl, c)
should_draw_right_border(tbl) == \E c \in RightComponents : style_exists(tbl, c)
should_draw_horizontal_lines(tbl) == \E c \in HorizontalComponents : style_exists(tbl, c)
should_draw_vertical_lines(tbl) == \E c \in VerticalComponents : style_exists(tbl, c)
\* mutant: the header separator follows the data separator's components
should_draw_header_by_horizontal_lines(tbl) ==
  \E c \in HorizontalComponents : style_exists(tbl, c)

should_draw_header(tbl) == \E c \in HeaderComponents : style_exists(tbl, c)

\* ------------------------------------------------------------ top border
RECURSIVE ContMapLoop(_, _, _, _, _)
ContMapLoop(cells, k, col_index, continuation, all_have_colspan) ==
  IF k > Len(cells) THEN <<continuation, all_have_colspan>>
  ELSE LET colspan == cells[k].colspan
       IN ContMapLoop(cells, k + 1, col_index + colspan,
            [c \in DOMAIN continuation |->
               continuation[c] \/ \E i \in 1..(colspan - 1) : c = col_index + i],
            IF colspan = 1 THEN FALSE ELSE all_have_colspan)

\* mutant: a header of colspan cells only is not told apart
build_colspan_continuation_map_never_all(row_cells, num_columns) ==
  IF row_cells.present
  THEN <<ContMapLoop(row_cells.cells, 1, 0,
                     [c \in 0..(num_columns - 1) |-> FALSE], TRUE)[1], FALSE>>
  ELSE <<[c \in 0..(num_columns - 1) |-> FALSE], FALSE>>

\* row_cells: the header as an Option<Row>, [present, cells]
build_colspan_continuation_map(row_cells, num_columns) ==
  IF row_cells.present
  THEN ContMapLoop(row_cells.cells, 1, 0, [c \in 0..(num_columns - 1) |-> FALSE], TRUE)
  ELSE <<[c \in 0..(num_columns - 1) |-> FALSE], FALSE>>

RECURSIVE TopLoop(_, _, _, _, _, _, _)
TopLoop(tbl, dinfo, cont, should_merge, col_index, first, acc) ==
  IF col_index >= Len(dinfo) THEN acc
  ELSE IF IsHidden(dinfo, col_index)
       THEN TopLoop(tbl, dinfo, cont, should_merge, col_index + 1, first, acc)
       ELSE LET header_has_colspan == col_index \in DOMAIN cont /\ cont[col_index]
                joint == IF should_merge /\ header_has_colspan
                         THEN Seg({col_index}, "merged", <<style_or_default(tbl, "TopBorder")>>)
                         ELSE Seg({col_index}, "joint",
                                  <<style_or_default(tbl, "TopBorderIntersections")>>)
            IN TopLoop(tbl, dinfo, cont, should_merge, col_index + 1, FALSE,
                 acc \o OptSeg(~first, joint) \o
                 <<Seg({col_index}, "fill",
                       Repeat(style_or_default(tbl, "TopBorder"), ColWidth(dinfo, col_index)))>>)

draw_top_border(tbl, dinfo) ==
  LET m == build_colspan_continuation_map(tbl.header, Len(dinfo))
      is_dynamic == tbl.arrangement \in {"Dynamic", "DynamicFullWidth"}
      should_merge_header_colspan == ~m[2] /\ ~is_dynamic
  IN OptSeg(should_draw_left_border(tbl),
            Seg({}, "edge", <<style_or_default(tbl, "TopLeftCorner")>>))
     \o TopLoop(tbl, dinfo, m[1], should_merge_header_colspan, 0, TRUE, <<>>)
     \o OptSeg(should_draw_right_border(tbl),
               Seg({}, "edge", <<style_or_default(tbl, "TopRightCorner")>>))

\* ------------------------------------------------------------ embed_line
\* mutant: the vertical line is drawn before a colspan marker too
RECURSIVE EmbedLoop_separator_before_marker(_, _, _, _)
EmbedLoop_separator_before_marker(line_parts, tbl, k, acc) ==
  IF k > Len(line_parts) THEN acc
  ELSE LET piece == <<Seg({k - 1}, "piece", line_parts[k])>>
           after ==
             IF k < Len(line_parts)
             THEN OptSeg(should_draw_vertical_lines(tbl),
                         Seg({k}, "joint", <<style_or_default(tbl, "VerticalLines")>>))
             ELSE OptSeg(should_draw_right_border(tbl),
                         Seg({}, "edge", <<style_or_default(tbl, "RightBorder")>>))
       IN EmbedLoop_separator_before_marker(line_parts, tbl, k + 1, acc \o piece \o after)

RECURSIVE EmbedLoop(_, _, _, _)
EmbedLoop(line_parts, tbl, k, acc) ==
  IF k > Len(line_parts) THEN acc
  ELSE LET piece == <<Seg({k - 1}, "piece", line_parts[k])>>
           after ==
             IF k < Len(line_parts)
             THEN IF line_parts[k + 1] = <<>> THEN <<>>
                  ELSE OptSeg(should_draw_vertical_lines(tbl),
                              Seg({k}, "joint", <<style_or_default(tbl, "VerticalLines")>>))
             ELSE OptSeg(should_draw_right_border(tbl),
                         Seg({}, "edge", <<style_or_default(tbl, "RightBorder")>>))
       IN EmbedLoop(line_parts, tbl, k + 1, acc \o piece \o after)

embed_line(line_parts, tbl) ==
  EmbedLoop(line_parts, tbl, 1,
            OptSeg(should_draw_left_border(tbl),
                   Seg({}, "edge", <<style_or_default(tbl, "LeftBorder")>>)))

\* ----------------------------------------------------- horizontal lines
\* Option<&[String]> is None or a one-element tuple holding the line
IsMarkerAt(line, visible_col_index) ==
  visible_col_index < Len(line) /\ line[visible_col_index + 1] = <<>>

ColumnBorderInfo(dinfo, row_index, trk, ord, row_line, next_row_line, col_index) ==
  LET info == dinfo[col_index + 1]
      visible_col_index == VisibleIndex(dinfo, col_index)
      cont == get_rowspan_start_at_row(trk, ord, row_index, col_index)
      incl == get_rowspan_including_row(trk, ord, row_index, col_index)
      default == [is_hidden |-> info.is_hidden, width |-> info.width,
                  is_rowspan_continuing |-> FALSE, rowspan_start_col |-> None,
                  rowspan_colspan |-> 0,
                  is_rowspan_ending |-> FALSE, ending_rowspan_start_col |-> None,
                  ending_rowspan_colspan |-> 0,
                  is_colspan_continuation |-> FALSE, next_row_has_colspan |-> FALSE]
      spans == IF cont # None
               THEN [default EXCEPT !.is_rowspan_continuing = TRUE,
                                    !.rowspan_start_col = <<cont[2]>>,
                                    !.rowspan_colspan = cont[3]]
               ELSE IF incl # None
               THEN [default EXCEPT !.is_rowspan_ending = TRUE,
                                    !.ending_rowspan_start_col = <<incl[2]>>,
                                    !.ending_rowspan_colspan = incl[3]]
               ELSE default
  IN IF info.is_hidden THEN default
     ELSE [spans EXCEPT
             !.is_colspan_continuation = IsMarkerAt(row_line, visible_col_index),
             !.next_row_has_colspan =
               next_row_line # None /\ IsMarkerAt(next_row_line[1], visible_col_index)]

compute_column_border_info(dinfo, row_index, trk, ord, row_line, next_row_line) ==
  [k \in 1..Len(dinfo) |->
     ColumnBorderInfo(dinfo, row_index, trk, ord, row_line, next_row_line, k - 1)]

\* mutant: the item drawn before the column is not looked at
select_intersection_type_ignoring_rowspan(header, previous_was_rowspan, next_row_has_colspan) ==
  IF next_row_has_colspan THEN "Merge" ELSE "Normal"

select_intersection_type(header, previous_was_rowspan, next_row_has_colspan) ==
  IF ~header /\ previous_was_rowspan THEN "LeftBorderAfterRowspan"
  ELSE IF next_row_has_colspan THEN "Merge"
  ELSE "Normal"

BorderStyles(tbl, header) ==
  IF header
  THEN [left_intersection |-> style_or_default(tbl, "LeftHeaderIntersection"),
        left_border |-> style_or_default(tbl, "LeftBorder"),
        horizontal |-> style_or_default(tbl, "HeaderLines"),
        middle_intersection |-> style_or_default(tbl, "MiddleHeaderIntersections"),
        merge_intersection |-> style_or_default(tbl, "MiddleHeaderMergeIntersection"),
        left_border_intersection |-> style_or_default(tbl, "LeftBorderIntersections"),
        right_intersection |-> style_or_default(tbl, "RightHeaderIntersection")]
  ELSE [left_intersection |-> style_or_default(tbl, "LeftBorderIntersections"),
        left_border |-> style_or_default(tbl, "LeftBorder"),
        horizontal |-> style_or_default(tbl, "HorizontalLines"),
        middle_intersection |-> style_or_default(tbl, "MiddleIntersections"),
        merge_intersection |-> style_or_default(tbl, "BottomBorderIntersections"),
        left_border_intersection |-> style_or_default(tbl, "LeftBorderIntersections"),
        right_intersection |-> style_or_default(tbl, "RightBorderIntersections")]

get_intersection(styles, typ) ==
  CASE typ = "Normal" -> styles.middle_intersection
    [] typ = "Merge" -> styles.merge_intersection
    [] typ = "LeftBorderAfterRowspan" -> styles.left_border_intersection

\* mutant: the span's columns are taken up to its end, not up to the last column
VisibleIn_to_span_end(dinfo, start_col, end_col) ==
  {i \in start_col..(end_col - 1) : i >= Len(dinfo) \/ ~IsHidden(dinfo, i)}

VisibleIn(dinfo, start_col, end_col) ==
  {i \in start_col..(end_col - 1) : i < Len(dinfo) /\ ~IsHidden(dinfo, i)}

\* returns <<segments, number of columns consumed>>
draw_rowspan_space(dinfo, start_col, colspan) ==
  LET end_col == start_col + colspan
      visible == {i \in start_col..(end_col - 1) : i < Len(dinfo) /\ ~IsHidden(dinfo, i)}
      visible_count == Cardinality(visible)
      width == SumWidths(dinfo, visible)
                 + (IF visible_count > 0 THEN visible_count - 1 ELSE 0)
  IN <<(<<Seg(visible, "space", Repeat(" ", width))>>), end_col - start_col>>

RECURSIVE MergedRest(_, _, _)
MergedRest(dinfo, S, horizontal) ==
  IF S = {} THEN <<>>
  ELSE LET c == CHOOSE x \in S : \A y \in S : x <= y
       IN <<Seg({c}, "merged", <<horizontal>>),
            Seg({c}, "fill", Repeat(horizontal, ColWidth(dinfo, c)))>>
          \o MergedRest(dinfo, S \ {c}, horizontal)

\* returns <<segments, number of columns consumed>>
draw_ending_rowspan_border(dinfo, column_infos, current_idx, start_col, colspan, styles, first, previous_was_rowspan, header) ==
  LET end_col == start_col + colspan
      visible_cols == VisibleIn(dinfo, start_col, end_col)
      v0 == CHOOSE x \in visible_cols : \A y \in visible_cols : x <= y
      next_row_has_colspan ==
        current_idx < Len(column_infos) /\ column_infos[current_idx + 1].next_row_has_colspan
      intersection_type ==
        select_intersection_type(header, previous_was_rowspan, next_row_has_colspan)
  IN IF visible_cols = {} THEN <<(<<>>), end_col - start_col>>
     ELSE <<OptSeg(~first, Seg({v0}, "joint", <<get_intersection(styles, intersection_type)>>))
            \o <<Seg({v0}, "fill", Repeat(styles.horizontal, ColWidth(dinfo, v0)))>>
            \o MergedRest(dinfo, visible_cols \ {v0}, styles.horizontal),
            end_col - start_col>>

\* mutant: a merged joint adds nothing to the width of the run
RECURSIVE CountContinuations_without_joint_width(_, _, _, _, _)
CountContinuations_without_joint_width(column_infos, col_idx, colspan_count, total_width, merged) ==
  IF col_idx + colspan_count >= Len(column_infos)
  THEN <<colspan_count, total_width, merged>>
  ELSE LET next == column_infos[col_idx + colspan_count + 1]
       IN IF next.is_hidden
          THEN CountContinuations_without_joint_width(column_infos, col_idx,
                                  colspan_count + 1, total_width, merged)
          ELSE IF /\ next.is_colspan_continuation
                  /\ ~next.is_rowspan_continuing /\ ~next.is_rowspan_ending
          THEN CountContinuations_without_joint_width(column_infos, col_idx,
                                  colspan_count + 1, total_width + next.width,
                                  merged \cup {col_idx + colspan_count})
          ELSE <<colspan_count, total_width, merged>>

\* Case 4: <<colspan_count, total_width, merged columns>> of the run starting at col_idx
RECURSIVE CountContinuations(_, _, _, _, _)
CountContinuations(column_infos, col_idx, colspan_count, total_width, merged) ==
  IF col_idx + colspan_count >= Len(column_infos)
  THEN <<colspan_count, total_width, merged>>
  ELSE LET next == column_infos[col_idx + colspan_count + 1]
       IN IF next.is_hidden
          THEN CountContinuations(column_infos, col_idx, colspan_count + 1, total_width,
                                  merged)
          ELSE IF /\ next.is_colspan_continuation
                  /\ ~next.is_rowspan_continuing /\ ~next.is_rowspan_ending
          THEN CountContinuations(column_infos, col_idx, colspan_count + 1,
                                  total_width + 1 + next.width,
                                  merged \cup {col_idx + colspan_count})
          ELSE <<colspan_count, total_width, merged>>

RECURSIVE HorizontalLoop(_, _, _, _, _, _, _, _)
HorizontalLoop(dinfo, column_infos, styles, header, col_idx, first, previous_was_rowspan, acc) ==
  IF col_idx >= Len(column_infos) THEN acc
  ELSE LET col == column_infos[col_idx + 1] IN
    IF col.is_hidden
    THEN HorizontalLoop(dinfo, column_infos, styles, header, col_idx + 1, first,
                        previous_was_rowspan, acc)
    ELSE IF col.is_rowspan_continuing
    THEN LET r == draw_rowspan_space(dinfo, col.rowspan_start_col[1], col.rowspan_colspan)
         IN HorizontalLoop(dinfo, column_infos, styles, header, col_idx + r[2], FALSE,
                           TRUE, acc \o r[1])
    ELSE IF col.is_rowspan_ending
    THEN LET r == draw_ending_rowspan_border(dinfo, column_infos, col_idx,
                    col.ending_rowspan_start_col[1], col.ending_rowspan_colspan,
                    styles, first, previous_was_rowspan, header)
         IN HorizontalLoop(dinfo, column_infos, styles, header, col_idx + r[2], FALSE,
                           FALSE, acc \o r[1])
    ELSE IF col.is_colspan_continuation
    THEN HorizontalLoop(dinfo, column_infos, styles, header, col_idx + 1, first,
                        previous_was_rowspan,
                        acc \o <<Seg({col_idx}, "fill", Repeat(styles.horizontal, col.width))>>)
    ELSE LET n == CountContinuations(column_infos, col_idx, 1, col.width, {col_idx})
             intersection_type ==
               select_intersection_type(header, previous_was_rowspan,
                                        col.next_row_has_colspan)
         IN HorizontalLoop(dinfo, column_infos, styles, header, col_idx + n[1], FALSE,
                           FALSE,
                           acc \o OptSeg(~first, Seg({col_idx}, "joint",
                                           <<get_intersection(styles, intersection_type)>>))
                               \o <<Seg(n[3], "fill", Repeat(styles.horizontal, n[2]))>>)

\* mutant: the right edge mirrors the left one and turns into the border glyph
\* beside a continuing row-span
draw_horizontal_lines_right_like_left(tbl, dinfo, header, row_index, trk, ord, row_line, next_row_line) ==
  LET column_infos ==
        compute_column_border_info(dinfo, row_index, trk, ord, row_line, next_row_line)
      styles == BorderStyles(tbl, header)
      visible == {c \in 0..(Len(dinfo) - 1) : ~column_infos[c + 1].is_hidden}
      first_continuing ==
        /\ visible # {}
        /\ column_infos[(CHOOSE c \in visible : \A d \in visible : c <= d) + 1]
             .is_rowspan_continuing
      last_continuing ==
        /\ visible # {}
        /\ column_infos[(CHOOSE c \in visible : \A d \in visible : c >= d) + 1]
             .is_rowspan_continuing
      left_is_border == ~header /\ first_continuing
      left == OptSeg(should_draw_left_border(tbl),
                     Seg({}, "edge", <<IF left_is_border THEN styles.left_border
                                       ELSE styles.left_intersection>>))
  IN left
     \o HorizontalLoop(dinfo, column_infos, styles, header, 0, TRUE,
                       should_draw_left_border(tbl) /\ left_is_border, <<>>)
     \o OptSeg(should_draw_right_border(tbl),
               Seg({}, "edge", <<IF ~header /\ last_continuing
                                 THEN style_or_default(tbl, "RightBorder")
                                 ELSE styles.right_intersection>>))

draw_horizontal_lines(tbl, dinfo, header, row_index, trk, ord, row_line, next_row_line) ==
  LET column_infos ==
        compute_column_border_info(dinfo, row_index, trk, ord, row_line, next_row_line)
      styles == BorderStyles(tbl, header)
      visible == {c \in 0..(Len(dinfo) - 1) : ~column_infos[c + 1].is_hidden}
      first_continuing ==
        /\ visible # {}
        /\ column_infos[(CHOOSE c \in visible : \A d \in visible : c <= d) + 1]
             .is_rowspan_continuing
      left_is_border == ~header /\ first_continuing
      left == OptSeg(should_draw_left_border(tbl),
                     Seg({}, "edge", <<IF left_is_border THEN styles.left_border
                                       ELSE styles.left_intersection>>))
  IN left
     \o HorizontalLoop(dinfo, column_infos, styles, header, 0, TRUE,
                       should_draw_left_border(tbl) /\ left_is_border, <<>>)
     \o OptSeg(should_draw_right_border(tbl),
               Seg({}, "edge", <<styles.right_intersection>>))

\* --------------------------------------------------------- bottom border
\* merge if last row has colspan AND (header also has colspan OR table has few rows)
\* mutant: the last row's colspan merges whatever the header and row count
bottom_should_merge_on_last_row_only(tbl, is_lastrow_colspan, is_header_colspan) ==
  is_lastrow_colspan

bottom_should_merge(tbl, is_lastrow_colspan, is_header_colspan) ==
  LET few_data_rows == Len(tbl.rows) <= 2
  IN is_lastrow_colspan /\ (is_header_colspan \/ few_data_rows)

RECURSIVE BottomRest(_, _, _, _, _)
BottomRest(dinfo, i, end_col, merge_intersection, bottom_border) ==
  IF i >= end_col THEN <<>>
  ELSE (IF i < Len(dinfo) /\ ~IsHidden(dinfo, i)
        THEN <<Seg({i}, "merged", <<merge_intersection>>),
               Seg({i}, "fill", Repeat(bottom_border, ColWidth(dinfo, i)))>>
        ELSE <<>>)
       \o BottomRest(dinfo, i + 1, end_col, merge_intersection, bottom_border)

RECURSIVE BottomLoop(_, _, _, _, _, _, _, _, _, _)
BottomLoop(tbl, dinfo, last_row_line, trk, ord, last_row_index, cont, col_index, st, acc) ==
  IF col_index >= Len(dinfo) THEN acc
  ELSE IF IsHidden(dinfo, col_index)
  THEN BottomLoop(tbl, dinfo, last_row_line, trk, ord, last_row_index, cont,
                  col_index + 1, st, acc)
  ELSE LET bottom_border == style_or_default(tbl, "BottomBorder")
           intersection == style_or_default(tbl, "BottomBorderIntersections")
           merge_intersection == style_or_default(tbl, "BottomBorderColspanIntersections")
           span == get_rowspan_at_last_row(trk, ord, last_row_index, col_index)
       IN IF span # None
          THEN LET start_col == span[2]
                   rowspan_colspan == span[3]
                   visible_cols_in_rowspan ==
                     Cardinality(VisibleIn(dinfo, start_col, start_col + rowspan_colspan))
               IN BottomLoop(tbl, dinfo, last_row_line, trk, ord, last_row_index, cont,
                    start_col + rowspan_colspan,
                    [first |-> FALSE,
                     visible_col_index |-> st.visible_col_index + visible_cols_in_rowspan],
                    acc
                    \o OptSeg(~st.first /\ visible_cols_in_rowspan > 0,
                              Seg({start_col}, "merged", <<merge_intersection>>))
                    \o OptSeg(visible_cols_in_rowspan > 0,
                              Seg({start_col}, "fill",
                                  Repeat(bottom_border, ColWidth(dinfo, start_col))))
                    \o BottomRest(dinfo, start_col + 1, start_col + rowspan_colspan,
                                  merge_intersection, bottom_border))
          ELSE LET is_header_colspan == col_index \in DOMAIN cont /\ cont[col_index]
                   is_lastrow_colspan ==
                     /\ last_row_line # None
                     /\ IsMarkerAt(last_row_line[1], st.visible_col_index)
                   should_merge ==
                     bottom_should_merge(tbl, is_lastrow_colspan, is_header_colspan)
                   joint == IF should_merge
                            THEN Seg({col_index}, "merged", <<merge_intersection>>)
                            ELSE Seg({col_index}, "joint", <<intersection>>)
               IN BottomLoop(tbl, dinfo, last_row_line, trk, ord, last_row_index, cont,
                    col_index + 1,
                    [first |-> FALSE, visible_col_index |-> st.visible_col_index + 1],
                    acc \o OptSeg(~st.first, joint)
                        \o <<Seg({col_index}, "fill",
                                 Repeat(bottom_border, ColWidth(dinfo, col_index)))>>)

draw_bottom_border(tbl, dinfo, last_row_line, trk, ord, last_row_index) ==
  LET m == build_colspan_continuation_map(tbl.header, Len(dinfo))
  IN OptSeg(should_draw_left_border(tbl),
            Seg({}, "edge", <<style_or_default(tbl, "BottomLeftCorner")>>))
     \o BottomLoop(tbl, dinfo, last_row_line, trk, ord, last_row_index, m[1], 0,
                   [first |-> TRUE, visible_col_index |-> 0], <<>>)
     \o OptSeg(should_draw_right_border(tbl),
               Seg({}, "edge", <<style_or_default(tbl, "BottomRightCorner")>>))

\* ------------------------------------------- span registration in draw_rows
RECURSIVE RegisterHeaderCells(_, _, _, _)
RegisterHeaderCells(trk, cells, k, col_index) ==
  IF k > Len(cells) THEN trk
  ELSE LET cell == cells[k]
       IN RegisterHeaderCells(
            IF cell.rowspan > 1
            THEN register_rowspan(trk, 0, col_index, cell.rowspan, cell.colspan,
                                  cell.vertical_alignment)
            ELSE trk,
            cells, k + 1, col_index + cell.colspan)

RECURSIVE SkipOccupied(_, _, _, _, _)
SkipOccupied(trk, ord, row_index, col_index, num_columns) ==
  IF col_index < num_columns /\ is_col_occupied_by_rowspan(trk, ord, row_index, col_index)
  THEN SkipOccupied(trk, ord, row_index, col_index + 1, num_columns)
  ELSE col_index

RECURSIVE RegisterRowCells(_, _, _, _, _, _, _)
RegisterRowCells(trk, ord, cells, k, col_index, row_index, num_columns) ==
  IF k > Len(cells) THEN trk
  ELSE LET cell == cells[k]
           c == SkipOccupied(trk, ord, row_index, col_index, num_columns)
       IN IF c >= num_columns THEN trk
          ELSE RegisterRowCells(
                 IF cell.rowspan > 1
                 THEN register_rowspan(trk, row_index, c, cell.rowspan, cell.colspan,
                                       cell.vertical_alignment)
                 ELSE trk,
                 ord, cells, k + 1, c + cell.colspan, row_index, num_columns)

\* ----------------------------------------------------------- row assembler
\* The row assembler hands draw_borders one entry of `rows` per table row
\* (header first): a list of content lines, each a list of pieces, one per
\* visible column; a piece is "" (here <<>>) at a column that continues a cell
\* spanning several columns, and otherwise text as wide as the columns it
\* covers plus the separators it absorbs.
RECURSIVE PlaceCells(_, _, _, _, _, _, _)
PlaceCells(trk, cells, k, col_index, row_index, num_columns, placed) ==
  IF k > Len(cells) THEN [trk |-> trk, placed |-> placed]
  ELSE LET cell == cells[k]
           c == SkipOccupied(trk, "asc", row_index, col_index, num_columns)
       IN IF c >= num_columns THEN [trk |-> trk, placed |-> placed]
          ELSE PlaceCells(
                 register_rowspan(trk, row_index, c, cell.rowspan, cell.colspan,
                                  cell.vertical_alignment),
                 cells, k + 1, c + cell.colspan, row_index, num_columns,
                 placed \cup {[start_col |-> c, colspan |-> cell.colspan]})

\* glyph standing for the text of line j (1-based) of the cell at column c
ContentGlyph(j, c) == ToString(10 * (j - 1) + c)

PieceAt(dinfo, spans, c, j) ==
  LET owners == {sp \in spans : InColspan(sp, c)}
      owner == CHOOSE sp \in owners : \A o \in owners : sp.start_col <= o.start_col
      visible == {i \in owner.start_col..(owner.start_col + owner.colspan - 1) :
                    i < Len(dinfo) /\ ~IsHidden(dinfo, i)}
  IN IF owners = {} THEN Repeat(ContentGlyph(j, c), ColWidth(dinfo, c))
     ELSE IF \E v \in visible : v < c THEN <<>>
     ELSE Repeat(ContentGlyph(j, c), SumWidths(dinfo, visible) + Cardinality(visible) - 1)

RECURSIVE PiecesFrom(_, _, _, _)
PiecesFrom(dinfo, spans, c, j) ==
  IF c >= Len(dinfo) THEN <<>>
  ELSE (IF IsHidden(dinfo, c) THEN <<>> ELSE <<PieceAt(dinfo, spans, c, j)>>)
       \o PiecesFrom(dinfo, spans, c + 1, j)

RECURSIVE AssembleLoop(_, _, _, _, _, _)
AssembleLoop(all_rows, k, trk, dinfo, heights, acc) ==
  IF k > Len(all_rows) THEN acc
  ELSE LET row_index == k - 1
           from_above == {[start_col |-> e.start_col, colspan |-> e.colspan] :
                            e \in {x \in trk.active_spans : x.start_row < row_index}}
           p == PlaceCells(trk, all_rows[k], 1, 0, row_index, Len(dinfo), {})
       IN AssembleLoop(all_rows, k + 1, advance_row(p.trk, row_index + 1), dinfo, heights,
                       Append(acc, [j \in 1..heights[k] |->
                                      PiecesFrom(dinfo, from_above \cup p.placed, 0, j)]))

AllRows(tbl) == (IF tbl.header.present THEN <<tbl.header.cells>> ELSE <<>>) \o tbl.rows

AssembleRows(tbl, dinfo, heights) ==
  AssembleLoop(AllRows(tbl), 1, SpanTrackerNew, dinfo, heights, <<>>)

\* ---------------------------------------------------------- cell formatter
\* The formatter pads a line of content to the content width w of its cell.
\* tests/all/alignment_test.rs pins the result: "Center" (6 wide) in a content
\* width of 19 comes out with 7 spaces before and 6 after it, "Header2" (7
\* wide) with 6 and 6.
CellAlignment == {"Left", "Right", "Center"}

\* mutant: Center puts the smaller half of the spaces before the content
align_line_center_floor_left(line, w, alignment) ==
  LET remaining == w - Len(line)
  IN CASE alignment = "Left" -> line \o Repeat(" ", remaining)
       [] alignment = "Right" -> Repeat(" ", remaining) \o line
       [] alignment = "Center" ->
            Repeat(" ", remaining \div 2) \o line
              \o Repeat(" ", remaining - remaining \div 2)

align_line(line, w, alignment) ==
  LET remaining == w - Len(line)
  IN CASE alignment = "Left" -> line \o Repeat(" ", remaining)
       [] alignment = "Right" -> Repeat(" ", remaining) \o line
       [] alignment = "Center" ->
            Repeat(" ", remaining - remaining \div 2) \o line
              \o Repeat(" ", remaining \div 2)

\* the alignment of a cell: its own if set, else its column's, else Top
effective_vertical_alignment(cell_alignment, column_alignment) ==
  IF cell_alignment # None THEN cell_alignment[1]
  ELSE IF column_alignment # None THEN column_alignment[1]
  ELSE "Top"

\* mutant: Middle puts every blank line above the content
pad_cell_middle_as_bottom(cell_lines, row_height, alignment, odd_line_above) ==
  LET padding == row_height - Len(cell_lines)
      above == IF alignment = "Top" THEN 0 ELSE padding
  IN IF padding <= 0 THEN cell_lines
     ELSE [i \in 1..above |-> <<>>] \o cell_lines
            \o [i \in 1..(padding - above) |-> <<>>]

\* the row assembler pads the lines of a cell to the height of its row with
\* blank lines (here <<>>); for Middle the odd blank line goes above or below
pad_cell(cell_lines, row_height, alignment, odd_line_above) ==
  LET padding == row_height - Len(cell_lines)
      half == padding \div 2
      above == CASE alignment = "Top" -> 0
                 [] alignment = "Bottom" -> padding
                 [] alignment = "Middle" ->
                      IF odd_line_above THEN padding - half ELSE half
  IN IF padding <= 0 THEN cell_lines
     ELSE [i \in 1..above |-> <<>>] \o cell_lines
            \o [i \in 1..(padding - above) |-> <<>>]

NoFormat == [op |-> "none"]

\* ------------------------------------------------------------------ inputs
Cells(max_colspan, max_rowspan, alignments) ==
  [colspan : 1..max_colspan, rowspan : 1..max_rowspan, vertical_alignment : alignments]

RECURSIVE SumColspan(_)
SumColspan(cells) ==
  IF cells = <<>> THEN 0 ELSE Head(cells).colspan + SumColspan(Tail(cells))

\* a row never has more logical columns than the table: the builder grows the
\* column count to the widest row
RowsOf(cell_set) ==
  {r \in UNION {[1..n -> cell_set] : n \in 1..NumCols} : SumColspan(r) <= NumCols}

PlainRow == [c \in 1..NumCols |->
               [colspan |-> 1, rowspan |-> 1, vertical_alignment |-> "Top"]]

NoHeader == [present |-> FALSE, cells |-> <<>>]
Header(cells) == [present |-> TRUE, cells |-> cells]

TablesOf(row_set, min_rows, max_rows) ==
  UNION {[1..n -> row_set] : n \in min_rows..max_rows}

\* the widest row of the table defines the column count
HasFullRow(hdr, data_rows) ==
  \/ hdr.present /\ SumColspan(hdr.cells) = NumCols
  \/ \E k \in 1..Len(data_rows) : SumColspan(data_rows[k]) = NumCols

DisplayInfos(max_hidden) ==
  {[c \in 1..NumCols |-> [width |-> c, is_hidden |-> c \in hidden]] :
     hidden \in {h \in SUBSET (1..NumCols) : Cardinality(h) <= max_hidden}}

\* a table whose cells tile the grid: laid out left to right in the columns
\* that no row-span from above occupies, every cell has a place inside the
\* NumCols columns and covers no position a row-span from above covers
RECURSIVE GridRow(_, _, _, _, _, _)
GridRow(cells, k, col_index, occupied, row_index, acc) ==
  IF k > Len(cells) THEN [ok |-> TRUE, rects |-> acc]
  ELSE LET free == {c \in col_index..(NumCols - 1) : c \notin occupied}
           c == CHOOSE x \in free : \A y \in free : x <= y
           cols == c..(c + cells[k].colspan - 1)
       IN IF free = {} \/ ~(cols \subseteq 0..(NumCols - 1)) \/ cols \cap occupied # {}
          THEN [ok |-> FALSE, rects |-> acc]
          ELSE GridRow(cells, k + 1, c + cells[k].colspan, occupied, row_index,
                       acc \cup {[start_row |-> row_index, start_col |-> c,
                                  end_row |-> row_index + cells[k].rowspan - 1,
                                  colspan |-> cells[k].colspan]})

RECURSIVE GridRows(_, _, _)
GridRows(all_rows, k, rects) ==
  IF k > Len(all_rows) THEN TRUE
  ELSE LET row_index == k - 1
           occupied == UNION {s.start_col..(s.start_col + s.colspan - 1) :
                                s \in {x \in rects : x.start_row < row_index
                                                       /\ row_index <= x.end_row}}
           g == GridRow(all_rows[k], 1, 0, occupied, row_index, {})
       IN g.ok /\ GridRows(all_rows, k + 1, rects \cup g.rects)

WellFormed(tbl) == GridRows(AllRows(tbl), 1, {})

FullStyle == TableComponent

InitWith(headers, data, styles, arrangements, dinfos, max_lines) ==
  /\ \E hdr \in headers, rs \in data, st \in styles, ar \in arrangements :
       /\ HasFullRow(hdr, rs)
       /\ table = [header |-> hdr, rows |-> rs, style |-> st, arrangement |-> ar]
  /\ display_info \in dinfos
  /\ \E heights \in [1..Len(AllRows(table)) -> 1..max_lines] :
       rows = AssembleRows(table, display_info, heights)
  /\ span_tracker = SpanTrackerNew
  /\ lines = <<>>
  /\ pc = "top"
  /\ cur_row = 0
  /\ fmt = NoFormat

\* ------------------------------------------------------------ draw_borders
Line(kind, row, segs) == [kind |-> kind, row |-> row, segs |-> segs]

header_rows == IF table.header.present THEN 1 ELSE 0

FirstLineOf(k) == IF rows[k] = <<>> THEN <<>> ELSE rows[k][1]

ContentLines(k) ==
  [i \in 1..Len(rows[k]) |-> Line("content", k - 1, embed_line(rows[k][i], table))]

AfterRows == IF cur_row + 1 < Len(rows) THEN "row" ELSE "bottom"

DrawTopBorder ==
  /\ pc = "top"
  /\ lines' = IF should_draw_top_border(table)
              THEN <<Line("top", 0, draw_top_border(table, display_info))>>
              ELSE <<>>
  /\ pc' = IF rows = <<>> THEN "bottom" ELSE "row"
  /\ UNCHANGED <<table, display_info, rows, span_tracker, cur_row, fmt>>

\* mutant: the header's row-spans are registered before its separator is drawn
DrawHeaderLines_after_registering ==
  /\ pc = "row" /\ cur_row = 0 /\ table.header.present
  /\ \E ord \in IterOrders :
       lines' = lines \o ContentLines(1) \o
                (IF should_draw_header(table)
                 THEN <<Line("header_sep", 0,
                          draw_horizontal_lines(table, display_info, TRUE, 0,
                            RegisterHeaderCells(span_tracker, table.header.cells, 1, 0),
                            ord, FirstLineOf(1),
                            IF Len(rows) > 1 THEN <<FirstLineOf(2)>> ELSE None))>>
                 ELSE <<>>)
  /\ pc' = "header_registered"
  /\ UNCHANGED <<table, display_info, rows, span_tracker, cur_row, fmt>>

DrawHeaderLines ==
  /\ pc = "row" /\ cur_row = 0 /\ table.header.present
  /\ \E ord \in IterOrders :
       lines' = lines \o ContentLines(1) \o
                (IF should_draw_header(table)
                 THEN <<Line("header_sep", 0,
                          draw_horizontal_lines(table, display_info, TRUE, 0, span_tracker,
                            ord, FirstLineOf(1),
                            IF Len(rows) > 1 THEN <<FirstLineOf(2)>> ELSE None))>>
                 ELSE <<>>)
  /\ pc' = "header_registered"
  /\ UNCHANGED <<table, display_info, rows, span_tracker, cur_row, fmt>>

RegisterHeader ==
  /\ pc = "header_registered"
  /\ span_tracker' =
       advance_row(RegisterHeaderCells(span_tracker, table.header.cells, 1, 0), 1)
  /\ cur_row' = 1
  /\ pc' = AfterRows
  /\ UNCHANGED <<table, display_info, rows, lines, fmt>>

RegisterDataRow ==
  /\ pc = "row" /\ ~(cur_row = 0 /\ table.header.present)
  /\ lines' = lines \o ContentLines(cur_row + 1)
  /\ LET actual_row_index == cur_row - header_rows
     IN \E ord \in IterOrders :
          span_tracker' =
            IF actual_row_index < Len(table.rows)
            THEN RegisterRowCells(span_tracker, ord, table.rows[actual_row_index + 1], 1, 0,
                                  actual_row_index + header_rows, Len(display_info))
            ELSE span_tracker
  /\ pc' = "registered"
  /\ UNCHANGED <<table, display_info, rows, cur_row, fmt>>

DrawRowSeparator ==
  /\ pc = "registered"
  /\ \E ord \in IterOrders :
       lines' = lines \o
                (IF cur_row + 1 < Len(rows) /\ should_draw_horizontal_lines(table)
                 THEN <<Line("row_sep", cur_row,
                          draw_horizontal_lines(table, display_info, FALSE, cur_row,
                            span_tracker, ord, FirstLineOf(cur_row + 1),
                            <<FirstLineOf(cur_row + 2)>>))>>
                 ELSE <<>>)
  /\ span_tracker' = advance_row(span_tracker, cur_row + 1)
  /\ cur_row' = cur_row + 1
  /\ pc' = AfterRows
  /\ UNCHANGED <<table, display_info, rows, fmt>>

DrawBottomBorder ==
  /\ pc = "bottom"
  /\ \E ord \in IterOrders :
       lines' = lines \o
                (IF should_draw_bottom_border(table)
                 THEN <<Line("bottom", 0,
                          draw_bottom_border(table, display_info,
                            IF rows = <<>> \/ rows[Len(rows)] = <<>> THEN None
                            ELSE <<rows[Len(rows)][1]>>,
                            span_tracker, ord,
                            IF rows = <<>> THEN 0 ELSE Len(rows) - 1))>>
                 ELSE <<>>)
  /\ pc' = "done"
  /\ UNCHANGED <<table, display_info, rows, span_tracker, cur_row, fmt>>

Next ==
  \/ DrawTopBorder
  \/ DrawHeaderLines
  \/ RegisterHeader
  \/ RegisterDataRow
  \/ DrawRowSeparator
  \/ DrawBottomBorder

\* ---------------------------------------------------------- specifications
SpanCells == Cells(MaxColspan, MaxRowspan, {"Top"})

\* every table of up to MaxDataRows rows of spanning cells, with or without
\* plain header and with up to MaxHidden hidden columns
InitSpans ==
  InitWith({NoHeader, Header(PlainRow)}, TablesOf(RowsOf(SpanCells), 1, MaxDataRows),
           {FullStyle}, {"Disabled"}, DisplayInfos(MaxHidden), 1)

AllVisible == \A c \in 1..Len(display_info) : ~display_info[c].is_hidden

\* the tables of InitSpans whose cells tile the grid
Init == InitSpans /\ WellFormed(table)

Spec == Init /\ [][Next]_vars

\* the tables of Init with every column visible
InitVisible == Init /\ AllVisible

SpecVisible == InitVisible /\ [][Next]_vars

\* the tables of InitSpans with every column visible, tiling the grid or not
InitAny == InitSpans /\ AllVisible

SpecAny == InitAny /\ [][Next]_vars

\* the tables of InitSpans, tiling the grid or not, hidden columns or not
SpecSpans == InitSpans /\ [][Next]_vars

\* iteration order: tables of MaxDataRows rows whose row-spans
\* may reach past the last row, tiling the grid or not
LongSpanCells == Cells(MaxColspan, MaxRowspan + 1, {"Top"})

InitOrder ==
  InitWith({NoHeader, Header(PlainRow)},
           TablesOf(RowsOf(LongSpanCells), MaxDataRows, MaxDataRows),
           {FullStyle}, {"Disabled"}, DisplayInfos(MaxHidden), 1)

SpecOrder == InitOrder /\ [][Next]_vars

\* overlap: headers and rows of spanning cells, tiling the grid or not, every
\* column visible, so that a span of the header meets a span of the first row
InitOverlap ==
  InitWith({Header(r) : r \in RowsOf(SpanCells)},
           TablesOf(RowsOf(SpanCells), MaxDataRows, MaxDataRows),
           {FullStyle}, {"Disabled"}, DisplayInfos(0), 1)

SpecOverlap == InitOverlap /\ [][Next]_vars

\* edges of the grid: a first and a last data row of cells that are plain or
\* span as far as allowed, laid out wherever the row-spans above leave room,
\* so that spans reach past the last column and past the last row
EdgeCells ==
  {c \in Cells(MaxColspan, MaxRowspan, {"Top"}) :
     c.colspan \in {1, MaxColspan} /\ c.rowspan \in {1, MaxRowspan}}

EdgeTables == {<<a, b>> : a \in RowsOf(EdgeCells), b \in RowsOf(EdgeCells)}

InitEdge ==
  InitWith({NoHeader, Header(PlainRow)}, EdgeTables, {FullStyle}, {"Disabled"},
           DisplayInfos(MaxHidden), 1)

SpecEdge == InitEdge /\ [][Next]_vars

ColspanCells == Cells(MaxColspan, 1, {"Top"})
ColspanHeaders == {NoHeader} \cup {Header(r) : r \in RowsOf(ColspanCells)}

\* top border: every header shape under every content arrangement
InitTop ==
  InitWith(ColspanHeaders, {<<PlainRow>>}, {FullStyle}, ContentArrangement,
           DisplayInfos(MaxHidden), 1)

SpecTop == InitTop /\ [][Next]_vars

\* bottom border: colspans in the header and in the last row under up to
\* MaxBottomRows - 1 plain rows; and tables whose first row holds row-spans
PlainTables(min_rows, max_rows) == TablesOf({PlainRow}, min_rows, max_rows)

BottomTables ==
  {<<>>} \cup {above \o <<r>> : above \in PlainTables(0, MaxBottomRows - 1),
                                r \in RowsOf(ColspanCells)}

SpanOverBottomTables ==
  {<<r>> \o below : r \in RowsOf(SpanCells),
                    below \in TablesOf(RowsOf(ColspanCells), 0, 1)}

InitBottom ==
  \/ InitWith(ColspanHeaders, BottomTables, {FullStyle}, {"Disabled"},
              DisplayInfos(MaxHidden), 1)
  \/ InitWith({NoHeader}, SpanOverBottomTables, {FullStyle}, {"Disabled"},
              DisplayInfos(MaxHidden), 1)

SpecBottom == InitBottom /\ [][Next]_vars

\* left edge: rows that open with any spanning cell followed by plain cells,
\* over rows that are plain or open a row-span in the first free column
PlainCell == PlainRow[1]

LeftRows ==
  {<<c>> \o [i \in 1..n |-> PlainCell] :
     c \in SpanCells, n \in 0..(NumCols - 1)} \cap RowsOf(SpanCells)

LowerRows == {PlainRow, <<PlainCell>>, <<[PlainCell EXCEPT !.rowspan = MaxRowspan]>>}

LeftTables ==
  {<<r>> \o below : r \in LeftRows, below \in TablesOf(LowerRows, 0, MaxDataRows - 1)}

InitLeft ==
  InitWith({NoHeader, Header(PlainRow)}, LeftTables, {FullStyle}, {"Disabled"},
           DisplayInfos(MaxHidden), 1)

SpecLeft == InitLeft /\ [][Next]_vars

\* colspans: a header of colspan cells over a first row of colspan cells, or of
\* one spanning cell followed by plain cells, and one plain row below it
MergeRows == LeftRows \cup RowsOf(ColspanCells)

MergeTables ==
  {<<r, below>> : r \in MergeRows, below \in LowerRows}

InitMerge ==
  /\ InitWith(ColspanHeaders \ {NoHeader}, MergeTables, {FullStyle}, {"Disabled"},
              DisplayInfos(MaxHidden), 1)
  /\ WellFormed(table)

SpecMerge == InitMerge /\ [][Next]_vars

\* ended spans: a header that opens with a spanning cell, a row that is plain
\* or opens a row-span, at most one plain row, and a last row of colspan
\* cells or one that is plain or opens a row-span
EndedTables ==
  {<<a>> \o mid \o <<b>> : a \in LowerRows, mid \in PlainTables(0, 1),
                           b \in RowsOf(ColspanCells) \cup LowerRows}

InitEnded ==
  InitWith({Header(r) : r \in LeftRows}, EndedTables, {FullStyle}, {"Disabled"},
           DisplayInfos(MaxHidden), 1)

SpecEnded == InitEnded /\ [][Next]_vars

\* span tracker: a header that may open a row-span, over rows that are plain
\* or open a row-span, one or MaxColspan columns wide, in the first free column
WideTallCell == [PlainCell EXCEPT !.colspan = MaxColspan, !.rowspan = MaxRowspan]

TrackerRows == LowerRows \cup {<<WideTallCell>>}

InitTracker ==
  InitWith({NoHeader} \cup {Header(r) : r \in LeftRows},
           TablesOf(TrackerRows, 1, MaxDataRows), {FullStyle}, {"Disabled"},
           DisplayInfos(0), 1)

SpecTracker == InitTracker /\ [][Next]_vars

\* ending row-spans: a header of any spanning cells over rows that are plain
\* or open a row-span in the first free column, the cells tiling the grid
InitEnding ==
  /\ InitWith({NoHeader} \cup {Header(r) : r \in RowsOf(SpanCells)},
              TablesOf(TrackerRows, 1, MaxDataRows), {FullStyle}, {"Disabled"},
              DisplayInfos(MaxHidden), 1)
  /\ WellFormed(table)

SpecEnding == InitEnding /\ [][Next]_vars

InitEndingVisible == InitEnding /\ AllVisible

SpecEndingVisible == InitEndingVisible /\ [][Next]_vars

\* style maps: nothing, a single component, everything; rows of several lines
Styles == {{}} \cup {{c} : c \in TableComponent} \cup {FullStyle}

InitStyle ==
  InitWith({NoHeader, Header(PlainRow)}, TablesOf({PlainRow}, 0, MaxDataRows),
           Styles, {"Disabled"}, DisplayInfos(0), MaxLines)

SpecStyle == InitStyle /\ [][Next]_vars

\* content lines: colspan headers over one row of colspan cells, of one to
\* MaxLines lines each, under every style
InitEmbed ==
  InitWith(ColspanHeaders, {<<r>> : r \in RowsOf(ColspanCells)}, Styles, {"Disabled"},
           DisplayInfos(0), MaxLines)

SpecEmbed == InitEmbed /\ [][Next]_vars

\* right edge: a first row of plain cells closed by any spanning cell in the
\* last column, over a row that is plain or opens a row-span, under every style
RightRows ==
  {r \in {[i \in 1..n |-> PlainCell] \o <<c>> : c \in SpanCells, n \in 0..(NumCols - 1)} :
     SumColspan(r) = NumCols}

InitRight ==
  InitWith({NoHeader, Header(PlainRow)}, {<<r, below>> : r \in RightRows, below \in LowerRows},
           Styles, {"Disabled"}, DisplayInfos(MaxHidden), 1)

SpecRight == InitRight /\ [][Next]_vars

\* vertical alignment: under a plain header, a first data row of cells of any
\* alignment and row-span up to MaxAlignRowspan over rows of one plain cell
AlignCells ==
  {c \in Cells(MaxColspan, MaxAlignRowspan, VerticalAlignment) :
     c.rowspan = 1 => c.vertical_alignment = "Top"}

AlignTables ==
  {<<r>> \o below : r \in RowsOf(AlignCells),
                    below \in TablesOf({<<PlainRow[1]>>}, MaxDataRows - 1, MaxDataRows - 1)}

InitAlign ==
  InitWith({Header(PlainRow)}, AlignTables, {FullStyle}, {"Disabled"},
           DisplayInfos(0), 1)

SpecAlign == InitAlign /\ [][Next]_vars

\* content offsets: a first data row that opens with a cell of any span and
\* alignment, followed by plain cells
OffsetRows ==
  {<<c>> \o [i \in 1..n |-> PlainCell] :
     c \in AlignCells, n \in 0..(NumCols - 1)} \cap RowsOf(AlignCells)

OffsetTables ==
  {<<r>> \o below : r \in OffsetRows,
                    below \in TablesOf({<<PlainCell>>}, MaxDataRows - 1, MaxDataRows - 1)}

InitOffset ==
  InitWith({NoHeader, Header(PlainRow)}, OffsetTables, {FullStyle}, {"Disabled"},
           DisplayInfos(0), 1)

SpecOffset == InitOffset /\ [][Next]_vars

\* ------------------------------------------------------- formatter calls
\* a line of c glyphs to align in a content width w >= c
AlignCalls ==
  UNION {{[op |-> "align_line", line |-> Repeat("x", c), w |-> w, alignment |-> a,
           out |-> None] : c \in 0..w, a \in CellAlignment} : w \in 0..MaxContentWidth}

OptionalAlignments == {None} \cup {<<a>> : a \in VerticalAlignment}

\* a cell of h lines in a row of height row_height >= h; line j reads <<j>>
PadCalls ==
  UNION {{[op |-> "pad_cell", cell_lines |-> [j \in 1..h |-> <<ToString(j)>>],
           row_height |-> row_height, cell_alignment |-> ca, column_alignment |-> co,
           out |-> None] :
            h \in 1..row_height, ca \in OptionalAlignments, co \in OptionalAlignments} :
         row_height \in 1..MaxRowHeight}

InitFormat ==
  /\ fmt \in AlignCalls \cup PadCalls
  /\ table = [header |-> NoHeader, rows |-> <<>>, style |-> {}, arrangement |-> "Disabled"]
  /\ display_info = <<>>
  /\ rows = <<>>
  /\ span_tracker = SpanTrackerNew
  /\ lines = <<>>
  /\ pc = "format"
  /\ cur_row = 0

AlignLine ==
  /\ pc = "format" /\ fmt.op = "align_line"
  /\ fmt' = [fmt EXCEPT !.out = <<align_line(fmt.line, fmt.w, fmt.alignment)>>]
  /\ pc' = "formatted"
  /\ UNCHANGED <<table, display_info, rows, span_tracker, lines, cur_row>>

PadCell ==
  /\ pc = "format" /\ fmt.op = "pad_cell"
  /\ \E odd_line_above \in BOOLEAN :
       fmt' = [fmt EXCEPT !.out =
                 <<pad_cell(fmt.cell_lines, fmt.row_height,
                            effective_vertical_alignment(fmt.cell_alignment,
                                                         fmt.column_alignment),
                            odd_line_above)>>]
  /\ pc' = "formatted"
  /\ UNCHANGED <<table, display_info, rows, span_tracker, lines, cur_row>>

FormatNext ==
  \/ AlignLine
  \/ PadCell

SpecFormat == InitFormat /\ [][FormatNext]_vars

\* ------------------------------------------------ vocabulary of the claims
Columns == 0..(Len(display_info) - 1)
Visible == {c \in Columns : ~IsHidden(display_info, c)}
Leftmost(S) == CHOOSE c \in S : \A d \in S : c <= d
Rightmost(S) == CHOOSE c \in S : \A d \in S : c >= d
LastRowIndex == Len(rows) - 1

LeftDrawn == \E c \in LeftComponents : c \in table.style
RightDrawn == \E c \in RightComponents : c \in table.style

\* width every line should have: visible widths, one per gap, one per drawn side
ExpectedWidth ==
  SumWidths(display_info, Visible)
    + (IF Visible = {} THEN 0 ELSE Cardinality(Visible) - 1)
    + (IF LeftDrawn THEN 1 ELSE 0) + (IF RightDrawn THEN 1 ELSE 0)

\* the row-spans the tracker has recorded, as rectangles of the grid
SpanRects ==
  {[start_row |-> e.start_row, start_col |-> e.start_col,
    end_row |-> e.start_row + e.original_rowspan - 1, colspan |-> e.colspan] :
     e \in span_tracker.active_spans}
  \cup span_tracker.ended_spans

RectCols(s) == s.start_col..(s.start_col + s.colspan - 1)
RectVisible(s) == RectCols(s) \cap Visible
RunWidth(S) == SumWidths(display_info, S) + Cardinality(S) - 1

\* spans that cover row i and go on / stop there
ContinuingPast(i) == {s \in SpanRects : s.start_row <= i /\ i < s.end_row}
Covering(i) == {s \in SpanRects : s.start_row <= i /\ i <= s.end_row}

LinesOfKind(kind) == {i \in 1..Len(lines) : lines[i].kind = kind}
SegsOf(segs, parts, c) == {k \in 1..Len(segs) : segs[k].part \in parts /\ c \in segs[k].cols}

\* ------------------------------------------------------------------ claims

\* C1: every line returned by draw_borders (top border, content lines, header
\* separator, data-row separators, bottom border) has the same display width:
\* the visible column widths, one per gap between visible columns, and one for
\* each of the left and right borders that is drawn.
C1_EveryLineHasTheTableWidth ==
  \A i \in 1..Len(lines) : Width(lines[i].segs) = ExpectedWidth

\* C2: in every border line a hidden column contributes nothing (no segment
\* is drawn for it) and every visible column is drawn exactly once, with at
\* most one joint of its own and none for the first visible column.
BorderLineSkipsHidden(segs) ==
  /\ \A k \in 1..Len(segs) : segs[k].cols \subseteq Visible
  /\ \A c \in Visible :
       /\ Cardinality(SegsOf(segs, {"fill", "space"}, c)) = 1
       /\ Cardinality(SegsOf(segs, {"joint", "merged"}, c)) <= 1
  /\ Visible # {} => SegsOf(segs, {"joint", "merged"}, Leftmost(Visible)) = {}

C2_HiddenColumnContributesNothing ==
  \A i \in 1..Len(lines) :
    lines[i].kind # "content" => BorderLineSkipsHidden(lines[i].segs)

\* C3: two row-spans never overlap: no two entries of the tracker's active
\* map cover the same (row, col) position, so a table whose cells overlap two
\* row-spans is never registered (and never rendered).
RowsOfSpan(e) == e.start_row..(e.start_row + e.original_rowspan - 1)
ColsOfSpan(e) == e.start_col..(e.start_col + e.colspan - 1)

C3_RowSpansNeverOverlap ==
  \A e, f \in span_tracker.active_spans :
    e # f => RowsOfSpan(e) \cap RowsOfSpan(f) = {} \/ ColsOfSpan(e) \cap ColsOfSpan(f) = {}

\* C5: in a data-row separator drawn after row i, the columns of a row-span
\* that continues past row i are one run of spaces as wide as the span's
\* visible columns plus the gaps between them; the span's columns are consumed
\* exactly once, the glyph after the run belongs to the first visible column
\* after the span, and a span that does not start at the first visible column
\* keeps the separator glyph on its left.
SpaceRunIsFramed(segs, s) ==
  LET cols == RectVisible(s)
      runs == {k \in 1..Len(segs) : segs[k].part = "space" /\ segs[k].cols = cols}
      k == CHOOSE x \in runs : TRUE
      after == {c \in Visible : c > Rightmost(RectCols(s))}
  IN /\ Cardinality(runs) = 1
     /\ segs[k].text = Repeat(" ", RunWidth(cols))
     /\ \A c \in cols : Cardinality(SegsOf(segs, {"fill", "space"}, c)) = 1
     /\ k < Len(segs)
     /\ IF after = {} THEN segs[k + 1].part = "edge"
        ELSE segs[k + 1].cols = {Leftmost(after)} \/ segs[k + 1].part = "space"
     /\ Leftmost(cols) # Leftmost(Visible) =>
          (k > 1 /\ segs[k - 1].part = "joint" /\ segs[k - 1].cols = {Leftmost(cols)})

C5_ContinuingSpanIsBlankRun ==
  \A i \in LinesOfKind("row_sep") :
    \A s \in ContinuingPast(lines[i].row) :
      RectVisible(s) # {} => SpaceRunIsFramed(lines[i].segs, s)

\* C6: with the left border drawn, a data-row separator begins with the
\* LeftBorder glyph iff the first visible column is covered by a row-span that
\* continues past that row, and with LeftBorderIntersections otherwise; the
\* first intersection after such a span is LeftBorderIntersections; the header
\* separator always begins with LeftHeaderIntersection.
FirstColumnContinues(i) ==
  Visible # {} /\ \E s \in ContinuingPast(i) : Leftmost(Visible) \in RectCols(s)

FirstJoint(segs) ==
  LET joints == {k \in 1..Len(segs) : segs[k].part = "joint"}
  IN IF joints = {} THEN None ELSE segs[Leftmost(joints)].text

C6_LeftEdgeOfSeparators ==
  LeftDrawn =>
    /\ \A i \in LinesOfKind("row_sep") :
         LET segs == lines[i].segs IN
         IF FirstColumnContinues(lines[i].row)
         THEN /\ segs[1].text = <<style_or_default(table, "LeftBorder")>>
              /\ FirstJoint(segs) \in
                   {None, <<style_or_default(table, "LeftBorderIntersections")>>}
         ELSE segs[1].text = <<style_or_default(table, "LeftBorderIntersections")>>
    /\ \A i \in LinesOfKind("header_sep") :
         lines[i].segs[1].text = <<style_or_default(table, "LeftHeaderIntersection")>>

\* a table with a header whose first data row starts a row-span in the first
\* visible column: its separator starts with LeftBorder and the intersection
\* after the blank run is LeftBorderIntersections
C6_Witness ==
  /\ LeftDrawn /\ "LeftBorder" \in table.style /\ "LeftBorderIntersections" \in table.style
  /\ LinesOfKind("header_sep") # {}
  /\ \E i \in LinesOfKind("row_sep") :
       /\ FirstColumnContinues(lines[i].row)
       /\ lines[i].segs[1].text = <<"LeftBorder">>
       /\ FirstJoint(lines[i].segs) = <<"LeftBorderIntersections">>

\* C8: every row-span whose rows include the last rendered row (ended there
\* or reaching past the end of the table) is drawn in the bottom border as one
\* merged run of its visible columns: each covered column drawn exactly once
\* with the bottom-border glyph for its width, nothing drawn for a hidden
\* column of the span, and the merge glyph, never BottomBorderIntersections,
\* at each joint between covered columns.
BottomRunIsMerged(segs, s) ==
  LET cols == RectVisible(s)
  IN /\ \A k \in 1..Len(segs) : segs[k].cols \cap RectCols(s) \subseteq cols
     /\ \A c \in cols :
          LET fills == SegsOf(segs, {"fill", "space"}, c)
          IN /\ Cardinality(fills) = 1
             /\ \A k \in fills :
                  segs[k] = Seg({c}, "fill", Repeat(style_or_default(table, "BottomBorder"),
                                                    ColWidth(display_info, c)))
     /\ \A c \in cols \ {Leftmost(cols)} :
          LET joints == SegsOf(segs, {"joint", "merged"}, c)
          IN /\ Cardinality(joints) = 1
             /\ \A k \in joints :
                  segs[k].text = <<style_or_default(table, "BottomBorderColspanIntersections")>>

C8_SpanAtLastRowIsMergedRun ==
  \A i \in LinesOfKind("bottom") :
    \A s \in Covering(LastRowIndex) :
      RectVisible(s) # {} => BottomRunIsMerged(lines[i].segs, s)

\* C4: for every active span with rowspan k and alignment V and every content
\* height h <= k, the offset o of get_rowspan_content_offset keeps the block
\* [o, o+h) inside the k rows, with o = 0 for Top, o + h = k for Bottom, and
\* for Middle the empty rows above and below differing by at most one; with
\* rowspan 3 and one content row Middle puts the content on the second row.
OffsetPlacesContent(e, h, o) ==
  LET k == e.original_rowspan
      above == o
      below == k - h - o
  IN /\ 0 <= o /\ o + h <= k
     /\ e.vertical_alignment = "Top" => o = 0
     /\ e.vertical_alignment = "Bottom" => o + h = k
     /\ e.vertical_alignment = "Middle" => above - below \in {-1, 0, 1}
     /\ (e.vertical_alignment = "Middle" /\ k = 3 /\ h = 1) => o = 1

C4_OffsetKeepsContentInsideSpan ==
  \A e \in span_tracker.active_spans : \A col \in ColsOfSpan(e) :
    \A h \in 0..e.original_rowspan : \A ord \in IterOrders :
      OffsetPlacesContent(e, h,
        get_rowspan_content_offset(span_tracker, ord, e.start_row, col, h))

\* an active span of three rows aligned Middle, and one aligned Bottom
C4_Witness ==
  /\ \E e \in span_tracker.active_spans :
       /\ e.vertical_alignment = "Middle" /\ e.original_rowspan = 3
       /\ get_rowspan_content_offset(span_tracker, "asc", e.start_row, e.start_col, 1) = 1
  /\ \E e \in span_tracker.active_spans :
       /\ e.vertical_alignment = "Bottom"
       /\ get_rowspan_content_offset(span_tracker, "asc", e.start_row, e.start_col, 1)
            = e.original_rowspan - 1

\* C7: in the bottom border the joint before a visible column p that is not
\* the first visible column and not covered by a row-span reaching the last
\* row is the merge glyph iff the last row's first line has the colspan marker
\* at p and (the header has a colspan continuation at p or the table has at
\* most 2 data rows); otherwise it is BottomBorderIntersections.
HeaderCellStart(k) == SumColspan(SubSeq(table.header.cells, 1, k - 1))

HeaderContinuesAt(p) ==
  /\ table.header.present
  /\ \E k \in 1..Len(table.header.cells) :
       HeaderCellStart(k) < p /\ p < HeaderCellStart(k) + table.header.cells[k].colspan

\* position of column p among the visible columns, 1-based
VisibleRank(p) == Cardinality({c \in Visible : c <= p})

LastRowMarkerAt(p) ==
  /\ rows # <<>>
  /\ LET line == rows[Len(rows)][1]
     IN VisibleRank(p) <= Len(line) /\ Len(line[VisibleRank(p)]) = 0

BottomJointMerges(p) ==
  LastRowMarkerAt(p) /\ (HeaderContinuesAt(p) \/ Len(table.rows) <= 2)

FreeAtLastRow == {p \in Visible \ {Leftmost(Visible)} :
                    \A s \in Covering(LastRowIndex) : p \notin RectCols(s)}

C7_BottomJointMergeRule ==
  \A i \in LinesOfKind("bottom") : \A p \in FreeAtLastRow :
    LET segs == lines[i].segs
        joints == SegsOf(segs, {"joint", "merged"}, p)
    IN /\ Cardinality(joints) = 1
       /\ \A k \in joints :
            segs[k].text = <<style_or_default(table,
                               IF BottomJointMerges(p)
                               THEN "BottomBorderColspanIntersections"
                               ELSE "BottomBorderIntersections")>>

\* a table of more than two data rows where the joint merges because header
\* and last row both continue a colspan there
C7_Witness ==
  /\ Len(table.rows) > 2
  /\ \E i \in LinesOfKind("bottom") : \E p \in FreeAtLastRow :
       /\ BottomJointMerges(p)
       /\ \E k \in SegsOf(lines[i].segs, {"joint", "merged"}, p) :
            lines[i].segs[k].text = <<"BottomBorderColspanIntersections">>

\* C9: in the top border the joint before a visible column p other than the
\* first is the TopBorder glyph iff the header has a colspan continuation at
\* p, the arrangement is Disabled and some header cell has colspan 1;
\* otherwise, also without header, it is TopBorderIntersections.
TopJointMerges(p) ==
  /\ HeaderContinuesAt(p)
  /\ table.arrangement = "Disabled"
  /\ \E k \in 1..Len(table.header.cells) : table.header.cells[k].colspan = 1

C9_TopJointMergeRule ==
  \A i \in LinesOfKind("top") : \A p \in Visible \ {Leftmost(Visible)} :
    LET segs == lines[i].segs
        joints == SegsOf(segs, {"joint", "merged"}, p)
    IN /\ Cardinality(joints) = 1
       /\ \A k \in joints :
            segs[k].text = <<style_or_default(table,
                               IF TopJointMerges(p) THEN "TopBorder"
                               ELSE "TopBorderIntersections")>>

\* a top border with one merged joint and one intersection
C9_Witness ==
  \E i \in LinesOfKind("top") : \E p, q \in Visible \ {Leftmost(Visible)} :
    /\ TopJointMerges(p) /\ ~TopJointMerges(q)
    /\ \E k \in SegsOf(lines[i].segs, {"joint", "merged"}, p) :
         lines[i].segs[k].text = <<"TopBorder">>
    /\ \E k \in SegsOf(lines[i].segs, {"joint", "merged"}, q) :
         lines[i].segs[k].text = <<"TopBorderIntersections">>

\* C10: the output is the top border iff its predicate holds; then per row, in
\* insertion order, all content lines followed by the header separator (header
\* row, iff the header predicate holds, also without data rows) or the data
\* separator (every data row but the last, iff the horizontal-lines predicate
\* holds); then the bottom border iff its predicate holds.  A predicate holds
\* exactly when one of its components is in the style map.  The header
\* separator is drawn with the HeaderLines glyph and a data separator with
\* the HorizontalLines glyph.
Holds(components) == components \cap table.style # {}

Outline == [i \in 1..Len(lines) |->
              <<lines[i].kind, lines[i].row,
                SelectSeq(lines[i].segs, LAMBDA sg : sg.part = "piece")>>]

PiecesOutline(line) == [k \in 1..Len(line) |-> Seg({k - 1}, "piece", line[k])]

RECURSIVE RowsOutline(_)
RowsOutline(k) ==
  IF k > Len(rows) THEN <<>>
  ELSE [j \in 1..Len(rows[k]) |-> <<"content", k - 1, PiecesOutline(rows[k][j])>>]
       \o (IF k = 1 /\ table.header.present
           THEN (IF Holds(HeaderComponents) THEN <<(<<"header_sep", 0, <<>>>>)>> ELSE <<>>)
           ELSE IF k < Len(rows) /\ Holds(HorizontalComponents)
                THEN <<(<<"row_sep", k - 1, <<>>>>)>> ELSE <<>>)
       \o RowsOutline(k + 1)

ExpectedOutline ==
  (IF Holds(TopComponents) THEN <<(<<"top", 0, <<>>>>)>> ELSE <<>>)
  \o RowsOutline(1)
  \o (IF Holds(BottomComponents) THEN <<(<<"bottom", 0, <<>>>>)>> ELSE <<>>)

FillGlyphs(segs) ==
  UNION {{segs[k].text[n] : n \in 1..Len(segs[k].text)} :
           k \in {x \in 1..Len(segs) : segs[x].part = "fill"}}

C10_OutputOrder ==
  /\ pc = "done" => Outline = ExpectedOutline
  /\ \A i \in LinesOfKind("header_sep") :
       FillGlyphs(lines[i].segs) \subseteq {style_or_default(table, "HeaderLines")}
  /\ \A i \in LinesOfKind("row_sep") :
       FillGlyphs(lines[i].segs) \subseteq {style_or_default(table, "HorizontalLines")}

\* a finished render of a table with header whose style map draws the data
\* separator and nothing else, with a row of more than one line
C10_Witness ==
  /\ pc = "done"
  /\ table.header.present
  /\ LinesOfKind("row_sep") # {} /\ LinesOfKind("header_sep") = {}
  /\ LinesOfKind("top") = {} /\ LinesOfKind("bottom") = {}
  /\ \E k \in 1..Len(rows) : Len(rows[k]) > 1

\* C11: rendering is deterministic: whatever order the tracker's hash maps
\* are iterated in, the line draw_borders emits next is the same, so two runs
\* on the same table, rows and column widths return the same lines.
HeaderSeparatorUnder(ord) ==
  draw_horizontal_lines(table, display_info, TRUE, 0, span_tracker, ord, FirstLineOf(1),
                        IF Len(rows) > 1 THEN <<FirstLineOf(2)>> ELSE None)

RowSeparatorUnder(ord) ==
  draw_horizontal_lines(table, display_info, FALSE, cur_row, span_tracker, ord,
                        FirstLineOf(cur_row + 1), <<FirstLineOf(cur_row + 2)>>)

BottomBorderUnder(ord) ==
  draw_bottom_border(table, display_info,
                     IF rows = <<>> \/ rows[Len(rows)] = <<>> THEN None
                     ELSE <<rows[Len(rows)][1]>>,
                     span_tracker, ord, IF rows = <<>> THEN 0 ELSE Len(rows) - 1)

C11_RenderIsDeterministic ==
  \A o1, o2 \in IterOrders :
    /\ (pc = "row" /\ cur_row = 0 /\ table.header.present /\ should_draw_header(table))
         => Text(HeaderSeparatorUnder(o1)) = Text(HeaderSeparatorUnder(o2))
    /\ (pc = "registered" /\ cur_row + 1 < Len(rows) /\ should_draw_horizontal_lines(table))
         => Text(RowSeparatorUnder(o1)) = Text(RowSeparatorUnder(o2))
    /\ (pc = "bottom" /\ should_draw_bottom_border(table))
         => Text(BottomBorderUnder(o1)) = Text(BottomBorderUnder(o2))

\* C12: no step of draw_borders panics, whatever table the builder accepted
\* (spans past the last column or the last row, hidden columns inside spans,
\* short rows): every index used is inside display_info or table.rows, every
\* expect finds a value, and no unsigned subtraction goes below zero.
InBounds(i) == 0 <= i /\ i < Len(display_info)

\* spanning.rs 73 (rowspan - 1), 148 (start_row + rowspan - 1), 164 (-= 1)
TrackerInRange ==
  /\ \A e \in span_tracker.active_spans :
       e.remaining_rows >= 0 /\ e.start_row + e.original_rowspan - 1 >= 0
  /\ \A x \in span_tracker.ended_spans : x.end_row >= 0

\* borders.rs 461, 475 (expect), 637-665 (display_info[i], end_col - start_col)
SeparatorSitesHold(column_infos) ==
  \A k \in DOMAIN column_infos :
    LET col == column_infos[k] IN
      /\ col.is_rowspan_continuing => col.rowspan_start_col # None
      /\ col.is_rowspan_ending =>
           /\ col.ending_rowspan_start_col # None
           /\ LET start_col == col.ending_rowspan_start_col[1]
                  end_col == start_col + col.ending_rowspan_colspan
              IN /\ end_col - start_col >= 0
                 /\ \A i \in VisibleIn(display_info, start_col, end_col) : InBounds(i)

\* borders.rs 707-726 (display_info[i], display_info[start_col])
BottomSitesHold(ord) ==
  \A c \in Visible :
    LET span == get_rowspan_at_last_row(span_tracker, ord,
                  IF rows = <<>> THEN 0 ELSE Len(rows) - 1, c)
    IN span # None =>
         LET in_span == VisibleIn(display_info, span[2], span[2] + span[3])
         IN /\ \A i \in in_span : InBounds(i)
            /\ in_span # {} => InBounds(span[2])

HeaderInfosUnder(ord) ==
  compute_column_border_info(display_info, 0, span_tracker, ord, FirstLineOf(1),
                             IF Len(rows) > 1 THEN <<FirstLineOf(2)>> ELSE None)

RowInfosUnder(ord) ==
  compute_column_border_info(display_info, cur_row, span_tracker, ord,
                             FirstLineOf(cur_row + 1), <<FirstLineOf(cur_row + 2)>>)

C12_NoPanic ==
  /\ TrackerInRange
  /\ (pc = "row" /\ ~(cur_row = 0 /\ table.header.present)) =>
       /\ cur_row - header_rows >= 0
       /\ cur_row - header_rows < Len(table.rows) =>
            cur_row - header_rows + 1 \in DOMAIN table.rows
  /\ \A ord \in IterOrders :
       /\ (pc = "row" /\ cur_row = 0 /\ table.header.present /\ should_draw_header(table)) =>
            SeparatorSitesHold(HeaderInfosUnder(ord))
       /\ (pc = "registered" /\ cur_row + 1 < Len(rows)
             /\ should_draw_horizontal_lines(table)) =>
            SeparatorSitesHold(RowInfosUnder(ord))
       /\ (pc = "bottom" /\ should_draw_bottom_border(table)) => BottomSitesHold(ord)

\* the bottom border was drawn under a span that reaches past the last column
\* and past the last row and holds a hidden column
C12_Witness ==
  /\ pc = "done"
  /\ \E i \in 1..Len(lines) : lines[i].kind = "bottom"
  /\ \E e \in span_tracker.active_spans :
       /\ e.start_col + e.colspan > Len(display_info)
       /\ e.start_row + e.original_rowspan > Len(rows)
       /\ \E c \in Columns : InColspan(e, c) /\ IsHidden(display_info, c)

\* C13: in a row of height H a cell of h < H lines gets exactly H - h blank
\* lines and keeps its lines together and in order: the blank lines are all
\* below for Top, all above for Bottom, and for Middle above and below in
\* counts that differ by at most one; the alignment is the cell's own if set,
\* otherwise the column's, otherwise Top.
Blanks(n) == [i \in 1..n |-> <<>>]

AlignmentOfCall ==
  IF fmt.cell_alignment # None THEN fmt.cell_alignment[1]
  ELSE IF fmt.column_alignment # None THEN fmt.column_alignment[1]
  ELSE "Top"

C13_VerticalPadding ==
  (pc = "formatted" /\ fmt.op = "pad_cell" /\ Len(fmt.cell_lines) < fmt.row_height) =>
    LET padding == fmt.row_height - Len(fmt.cell_lines)
    IN \E above \in 0..padding :
         /\ fmt.out[1] = Blanks(above) \o fmt.cell_lines \o Blanks(padding - above)
         /\ AlignmentOfCall = "Top" => above = 0
         /\ AlignmentOfCall = "Bottom" => above = padding
         /\ AlignmentOfCall = "Middle" => 2 * above \in (padding - 1)..(padding + 1)

\* a cell without alignment in a Middle column was padded by an odd number of
\* lines, at least three
C13_Witness ==
  /\ pc = "formatted" /\ fmt.op = "pad_cell"
  /\ fmt.cell_alignment = None /\ fmt.column_alignment = <<"Middle">>
  /\ fmt.row_height - Len(fmt.cell_lines) = 3
  /\ Len(fmt.out[1]) = fmt.row_height

\* C14: a Center-aligned line of content width c in a content width w >= c
\* gets floor((w - c)/2) spaces on the left and ceil((w - c)/2) on the right:
\* an odd space goes to the right.
RECURSIVE LeadingSpaces(_)
LeadingSpaces(line) ==
  IF line = <<>> \/ Head(line) # " " THEN 0 ELSE 1 + LeadingSpaces(Tail(line))

RECURSIVE TrailingSpaces(_)
TrailingSpaces(line) ==
  IF line = <<>> \/ line[Len(line)] # " " THEN 0
  ELSE 1 + TrailingSpaces(SubSeq(line, 1, Len(line) - 1))

CenterCall == pc = "formatted" /\ fmt.op = "align_line" /\ fmt.alignment = "Center"

C14_CenterOddSpaceRight ==
  (CenterCall /\ fmt.line # <<>>) =>
    LET remaining == fmt.w - Len(fmt.line)
    IN /\ LeadingSpaces(fmt.out[1]) = remaining \div 2
       /\ TrailingSpaces(fmt.out[1]) = remaining - remaining \div 2

\* C14 as amended: ceil((w - c)/2) spaces on the left and floor((w - c)/2) on
\* the right: an odd space goes to the left, and the line is w wide.
C14_CenterOddSpaceLeft ==
  (CenterCall /\ fmt.line # <<>>) =>
    LET remaining == fmt.w - Len(fmt.line)
    IN /\ LeadingSpaces(fmt.out[1]) = remaining - remaining \div 2
       /\ TrailingSpaces(fmt.out[1]) = remaining \div 2
       /\ Len(fmt.out[1]) = fmt.w

\* a line was centred in a content width one more than its own
C14_Witness ==
  /\ CenterCall
  /\ Len(fmt.line) > 1 /\ fmt.w = Len(fmt.line) + 1
  /\ fmt.out[1] = <<" ">> \o fmt.line

\* C15: with the spans of row i registered and advance_row(i + 1) called row
\* after row, is_occupied(row, col), asked while row `row` is processed, is
\* Some exactly at the positions a span registered at (r, c) with rowspan k and
\* colspan s covers below its first row (r < row < r + k, c <= col < c + s),
\* and it returns that span's colspan and the rows left to it, (r + k - 1) - row.
\* The spans of the table, from its geometry: cells go left to right into the
\* columns no span from above covers.
RECURSIVE LaidOutRow(_, _, _, _, _, _)
LaidOutRow(cells, k, col_index, covered, row_index, acc) ==
  LET free == {c \in col_index..(Len(display_info) - 1) : c \notin covered}
  IN IF k > Len(cells) \/ free = {} THEN acc
     ELSE LET c == CHOOSE x \in free : \A y \in free : x <= y
          IN LaidOutRow(cells, k + 1, c + cells[k].colspan, covered, row_index,
               IF cells[k].rowspan > 1
               THEN acc \cup {[start_row |-> row_index, start_col |-> c,
                               end_row |-> row_index + cells[k].rowspan - 1,
                               colspan |-> cells[k].colspan]}
               ELSE acc)

RECURSIVE LaidOut(_, _, _)
LaidOut(all_rows, k, rects) ==
  IF k > Len(all_rows) THEN rects
  ELSE LET row_index == k - 1
           covered == UNION {RectCols(s) : s \in {x \in rects : x.start_row < row_index
                                                               /\ row_index <= x.end_row}}
       IN LaidOut(all_rows, k + 1,
                  rects \cup LaidOutRow(all_rows[k], 1, 0, covered, row_index, {}))

SpansBelowStart(row, col) ==
  {s \in LaidOut(AllRows(table), 1, {}) :
     s.start_row < row /\ row <= s.end_row /\ col \in RectCols(s)}

C15_OccupiedBelowStartRow ==
  pc \in {"row", "registered"} =>
    \A col \in Columns : \A ord \in IterOrders :
      LET r == is_occupied(span_tracker, ord, cur_row, col)
      IN /\ r # None <=> SpansBelowStart(cur_row, col) # {}
         /\ r # None =>
              \E s \in SpansBelowStart(cur_row, col) :
                r = <<s.end_row - cur_row, s.colspan>>

\* a span opened in the header has ended and is no longer reported, while a
\* span opened in the row above is reported on its last row
C15_Witness ==
  /\ pc = "registered" /\ cur_row = MaxRowspan
  /\ \E x \in span_tracker.ended_spans :
       x.start_row = 0 /\ is_occupied(span_tracker, "asc", cur_row, x.start_col) = None
  /\ \E e \in span_tracker.active_spans :
       /\ e.start_row = cur_row - 1
       /\ is_occupied(span_tracker, "asc", cur_row, e.start_col) = <<e.original_rowspan - 2, e.colspan>>

\* C16: register_rowspan with rowspan <= 1 changes neither map; with
\* rowspan > 1 it leaves exactly one active entry under the key (row, col),
\* with remaining_rows = rowspan - 1 and the colspan and rowspan given, and
\* changes no other active entry and no ended entry.
RegisterFrame(row, col, rowspan, colspan, alignment) ==
  LET after == register_rowspan(span_tracker, row, col, rowspan, colspan, alignment)
      entries == {e \in after.active_spans : SameKey(e, row, col)}
  IN /\ after.ended_spans = span_tracker.ended_spans
     /\ rowspan <= 1 => after.active_spans = span_tracker.active_spans
     /\ rowspan > 1 =>
          /\ {e \in after.active_spans : ~SameKey(e, row, col)}
               = {e \in span_tracker.active_spans : ~SameKey(e, row, col)}
          /\ Cardinality(entries) = 1
          /\ \A e \in entries :
               /\ e.remaining_rows = rowspan - 1
               /\ e.original_rowspan = rowspan
               /\ e.colspan = colspan

C16_RegisterChangesOneEntry ==
  \A row \in 0..Len(rows), col \in Columns, rowspan \in 0..(MaxRowspan + 1) :
    \A colspan \in 1..MaxColspan, alignment \in VerticalAlignment :
      RegisterFrame(row, col, rowspan, colspan, alignment)

\* draw_rows registered a span in a row that a span from above reaches, and
\* registering at that span's key again replaces it
C16_Witness ==
  /\ pc = "registered"
  /\ \E e, f \in span_tracker.active_spans :
       /\ e.start_row = cur_row /\ f.start_row < cur_row
       /\ e.remaining_rows = e.original_rowspan - 1
       /\ f \in register_rowspan(span_tracker, e.start_row, e.start_col, MaxRowspan + 1,
                                  1, "Top").active_spans
       /\ e \notin register_rowspan(span_tracker, e.start_row, e.start_col,
                                     MaxRowspan + 1, 1, "Top").active_spans

\* C17: advance_row(current_row) first moves every active entry whose
\* remaining_rows is 0 to the ended map, with end_row = start_row + rowspan - 1
\* and its colspan, and only then takes one from the remaining_rows of the
\* entries still active that start before current_row: the others are
\* unchanged, no count goes below 0, and an entry that reaches 0 in this call
\* is still active after it.
EndedOf(e) ==
  [start_row |-> e.start_row, start_col |-> e.start_col,
   end_row |-> e.start_row + e.original_rowspan - 1, colspan |-> e.colspan]

AdvanceFrame(current_row) ==
  LET after == advance_row(span_tracker, current_row)
      expired == {e \in span_tracker.active_spans : e.remaining_rows = 0}
      staying == span_tracker.active_spans \ expired
  IN /\ \A e \in expired :
          /\ \A f \in after.active_spans : ~SameKey(f, e.start_row, e.start_col)
          /\ EndedOf(e) \in after.ended_spans
     /\ \A e \in staying :
          IF e.start_row < current_row
          THEN [e EXCEPT !.remaining_rows = e.remaining_rows - 1] \in after.active_spans
          ELSE e \in after.active_spans
     /\ Cardinality(after.active_spans) = Cardinality(staying)
     /\ \A f \in after.active_spans : f.remaining_rows >= 0
     /\ \A x \in span_tracker.ended_spans :
          x \in after.ended_spans
            \/ \E e \in expired : SameKey(x, e.start_row, e.start_col)
     /\ Cardinality(after.ended_spans)
          = Cardinality({x \in span_tracker.ended_spans :
                           \A e \in expired : ~SameKey(x, e.start_row, e.start_col)})
            + Cardinality(expired)

C17_AdvanceMovesThenDecrements ==
  \A current_row \in 0..(Len(rows) + 1) : AdvanceFrame(current_row)

\* draw_rows advanced a tracker that held an expired span and a span with
\* one row left: the first is ended, the second still active with 0 rows left
C17_Witness ==
  /\ pc \in {"row", "bottom"} /\ cur_row > 1
  /\ \E x \in span_tracker.ended_spans : x.end_row = cur_row - 2
  /\ \E e \in span_tracker.active_spans :
       e.remaining_rows = 0 /\ e.start_row = cur_row - 1

\* C18: for an active span of k rows that starts at start_row and covers col,
\* get_rowspan_content_offset(start_row, col, h) is 0 for Top, (k - h) / 2
\* rounded down for Middle and k - h for Bottom when h <= k, and 0 for every
\* alignment when h > k; it is 0 when no active span starts at start_row and
\* covers col.
ExpectedOffset(e, h) ==
  LET k == e.original_rowspan
  IN IF h > k THEN 0
     ELSE CASE e.vertical_alignment = "Top" -> 0
            [] e.vertical_alignment = "Middle" -> (k - h) \div 2
            [] e.vertical_alignment = "Bottom" -> k - h

StartingAt(row, col) ==
  {e \in span_tracker.active_spans : e.start_row = row /\ col \in ColsOfSpan(e)}

C18_ContentOffsetValues ==
  \A row \in 0..Len(rows), col \in Columns, h \in 0..(MaxAlignRowspan + 1) :
    \A ord \in IterOrders :
      LET o == get_rowspan_content_offset(span_tracker, ord, row, col, h)
      IN IF StartingAt(row, col) = {} THEN o = 0
         ELSE \A e \in StartingAt(row, col) : o = ExpectedOffset(e, h)

\* a Bottom span is active in a row below its first: content higher than the
\* span and a question about the row below both give 0
C18_Witness ==
  \E e \in span_tracker.active_spans :
    /\ e.vertical_alignment = "Bottom" /\ e.start_row < cur_row
    /\ get_rowspan_content_offset(span_tracker, "asc", e.start_row, e.start_col, 1)
         = e.original_rowspan - 1
    /\ get_rowspan_content_offset(span_tracker, "asc", e.start_row, e.start_col,
                                  e.original_rowspan + 1) = 0
    /\ get_rowspan_content_offset(span_tracker, "asc", cur_row, e.start_col, 1) = 0

\* C19: the five span reads match, at (row, col): get_rowspan_start the active
\* spans with start_row < row; get_rowspan_start_including_self those with
\* start_row <= row; get_rowspan_start_at_row those with start_row <= row and
\* remaining_rows > 0; get_rowspan_including_row those with
\* start_row <= row <= start_row + rowspan - 1; get_rowspan_at_last_row what
\* get_rowspan_including_row matches, else the ended spans whose rows contain
\* row. So get_rowspan_start_including_self is Some wherever get_rowspan_start
\* or get_rowspan_start_at_row is, get_rowspan_at_last_row is Some wherever
\* get_rowspan_including_row is, and get_rowspan_start is Some exactly where
\* is_occupied is.
ActiveOver(col) == {e \in span_tracker.active_spans : col \in ColsOfSpan(e)}
EndedOver(col) == {x \in span_tracker.ended_spans : col \in RectCols(x)}

\* result is None if S is empty, else (start_row, start_col, colspan) of one of S
ReadsOneOf(result, S) ==
  IF S = {} THEN result = None
  ELSE \E e \in S : result = <<e.start_row, e.start_col, e.colspan>>

ReadsMatch(ord, row, col) ==
  LET start == get_rowspan_start(span_tracker, ord, row, col)
      self == get_rowspan_start_including_self(span_tracker, ord, row, col)
      at_row == get_rowspan_start_at_row(span_tracker, ord, row, col)
      including == get_rowspan_including_row(span_tracker, ord, row, col)
      last == get_rowspan_at_last_row(span_tracker, ord, row, col)
      in_rows == {e \in ActiveOver(col) :
                    e.start_row <= row /\ row <= e.start_row + e.original_rowspan - 1}
  IN /\ ReadsOneOf(start, {e \in ActiveOver(col) : e.start_row < row})
     /\ ReadsOneOf(self, {e \in ActiveOver(col) : e.start_row <= row})
     /\ ReadsOneOf(at_row, {e \in ActiveOver(col) :
                               e.start_row <= row /\ e.remaining_rows > 0})
     /\ ReadsOneOf(including, in_rows)
     /\ IF in_rows # {} THEN last = including
        ELSE ReadsOneOf(last, {x \in EndedOver(col) :
                                 x.start_row <= row /\ row <= x.end_row})
     /\ (start # None \/ at_row # None) => self # None
     /\ including # None => last # None
     /\ start # None <=> is_occupied(span_tracker, ord, row, col) # None

C19_FiveReads ==
  \A ord \in IterOrders, row \in 0..Len(rows), col \in Columns : ReadsMatch(ord, row, col)

\* an ended span is found by get_rowspan_at_last_row alone, and a span on its
\* last row is found by get_rowspan_including_row but no longer continues
C19_Witness ==
  /\ \E x \in span_tracker.ended_spans :
       /\ get_rowspan_including_row(span_tracker, "asc", x.end_row, x.start_col) = None
       /\ get_rowspan_at_last_row(span_tracker, "asc", x.end_row, x.start_col)
            = <<x.start_row, x.start_col, x.colspan>>
  /\ \E e \in span_tracker.active_spans :
       /\ e.remaining_rows = 0
       /\ get_rowspan_start_at_row(span_tracker, "asc", cur_row, e.start_col) = None
       /\ get_rowspan_including_row(span_tracker, "asc", cur_row, e.start_col)
            = <<e.start_row, e.start_col, e.colspan>>
       /\ get_rowspan_start(span_tracker, "asc", cur_row, e.start_col) # None

\* C20: in a separator drawn after row i, the columns of a row-span whose last
\* row is i are one run of the horizontal glyph, as long as the span's visible
\* columns are wide plus one per gap between them, with no intersection glyph
\* inside; exactly one intersection glyph leads the run unless the span begins
\* at the first visible column; the span's columns are consumed exactly once.
EndingAt(i) == {s \in SpanRects : s.start_row < i /\ s.end_row = i}

IntersectionGlyphs ==
  {style_or_default(table, "MiddleIntersections"),
   style_or_default(table, "BottomBorderIntersections"),
   style_or_default(table, "LeftBorderIntersections")}

EndingRunIsMerged(segs, s) ==
  LET cols == RectVisible(s)
      horizontal == style_or_default(table, "HorizontalLines")
      own == {k \in 1..Len(segs) : segs[k].cols \cap RectCols(s) # {}}
      first_seg == CHOOSE k \in own : \A j \in own : k <= j
      last_seg == CHOOSE k \in own : \A j \in own : j <= k
      leading == {k \in own : segs[k].part = "joint"}
      run == {k \in own : segs[k].part # "joint"}
  IN /\ own # {}
     /\ own = first_seg..last_seg
     /\ \A k \in own : segs[k].cols \subseteq cols
     /\ \A c \in cols : Cardinality(SegsOf(segs, {"fill", "space"}, c)) = 1
     /\ \A k \in run : segs[k].text = Repeat(horizontal, Len(segs[k].text))
     /\ Width([k \in 1..(last_seg - first_seg + 1) |-> segs[first_seg + k - 1]])
          = RunWidth(cols) + Cardinality(leading)
     /\ IF Leftmost(cols) = Leftmost(Visible) THEN leading = {}
        ELSE /\ leading = {first_seg}
             /\ segs[first_seg].text \in {<<g>> : g \in IntersectionGlyphs}

C20_EndingSpanIsMergedRun ==
  \A i \in LinesOfKind("row_sep") :
    \A s \in EndingAt(lines[i].row) :
      RectVisible(s) # {} => EndingRunIsMerged(lines[i].segs, s)

\* a separator was drawn under the last row of a span of several visible
\* columns that does not begin at the first visible column
C20_Witness ==
  \E i \in LinesOfKind("row_sep") :
    \E s \in EndingAt(lines[i].row) :
      /\ Cardinality(RectVisible(s)) > 1
      /\ Leftmost(RectVisible(s)) # Leftmost(Visible)
      /\ \E k \in 1..Len(lines[i].segs) :
           lines[i].segs[k].part = "merged" /\ lines[i].segs[k].cols \subseteq RectVisible(s)

\* C21: the intersection that leads a column in a separator is, on a data
\* separator right after a continuing row-span, LeftBorderIntersections, even
\* when the next row has a colspan continuation there; otherwise, where the
\* next row has a colspan continuation, the merge glyph (BottomBorderIntersections
\* on a data separator, MiddleHeaderMergeIntersection on the header separator);
\* otherwise MiddleIntersections or MiddleHeaderIntersections. The header
\* separator never uses LeftBorderIntersections.
NextRowContinuesAt(i, c) ==
  /\ lines[i].row + 2 <= Len(rows)
  /\ IsMarkerAt(FirstLineOf(lines[i].row + 2), VisibleIndex(display_info, c))

ExpectedGlyph(header, after_span, continues) ==
  IF ~header /\ after_span THEN style_or_default(table, "LeftBorderIntersections")
  ELSE IF continues
  THEN style_or_default(table, IF header THEN "MiddleHeaderMergeIntersection"
                               ELSE "BottomBorderIntersections")
  ELSE style_or_default(table, IF header THEN "MiddleHeaderIntersections"
                               ELSE "MiddleIntersections")

ExpectedJoint(i, k) ==
  LET segs == lines[i].segs
  IN ExpectedGlyph(lines[i].kind = "header_sep",
                   k > 1 /\ segs[k - 1].part = "space",
                   NextRowContinuesAt(i, Leftmost(segs[k].cols)))

ContinuationSites(i) ==
  {c \in Visible :
     /\ IsMarkerAt(FirstLineOf(lines[i].row + 1), VisibleIndex(display_info, c))
     /\ ~\E s \in Covering(lines[i].row) : c \in RectCols(s)}

HorizontalOf(i) ==
  style_or_default(table, IF lines[i].kind = "header_sep" THEN "HeaderLines"
                          ELSE "HorizontalLines")

UnbrokenThrough(i, c) ==
  LET segs == lines[i].segs
  IN /\ SegsOf(segs, {"joint"}, c) = {}
     /\ \E k \in SegsOf(segs, {"fill"}, c) :
          /\ Leftmost(segs[k].cols) < c
          /\ segs[k].text = Repeat(HorizontalOf(i), RunWidth(segs[k].cols))

VerticalDrawn == \E c \in VerticalComponents : c \in table.style

\* the line of the row's cells that content line i was embedded from
PartsOf(i) ==
  LET first == CHOOSE f \in LinesOfKind("content") :
                 /\ lines[f].row = lines[i].row
                 /\ \A g \in LinesOfKind("content") : lines[g].row = lines[i].row => f <= g
  IN rows[lines[i].row + 1][i - first + 1]

\* position in segs of the m-th piece
PiecePosition(segs, m) ==
  CHOOSE k \in 1..Len(segs) :
    /\ segs[k].part = "piece"
    /\ Cardinality({x \in 1..k : segs[x].part = "piece"}) = m

EmbeddedAs(segs, parts) ==
  LET n == Len(parts)
      left == IF LeftDrawn THEN 1 ELSE 0
      right == IF RightDrawn THEN 1 ELSE 0
      p(m) == PiecePosition(segs, m)
  IN /\ Cardinality({k \in 1..Len(segs) : segs[k].part = "piece"}) = n
     /\ LeftDrawn => segs[1].text = <<style_or_default(table, "LeftBorder")>>
     /\ n = 0 => Len(segs) = left
     /\ n > 0 =>
          /\ p(1) = left + 1
          /\ Len(segs) = p(n) + right
          /\ RightDrawn => segs[Len(segs)].text = <<style_or_default(table, "RightBorder")>>
     /\ \A m \in 1..n : segs[p(m)].text = parts[m]
     /\ \A m \in 1..(n - 1) :
          IF parts[m + 1] # <<>> /\ VerticalDrawn
          THEN /\ p(m + 1) = p(m) + 2
               /\ segs[p(m) + 1].text = <<style_or_default(table, "VerticalLines")>>
          ELSE p(m + 1) = p(m) + 1

C23_EmbedLineKeepsThePieces ==
  \A i \in LinesOfKind("content") : EmbeddedAs(lines[i].segs, PartsOf(i))

\* a content line with a colspan marker after a piece and a plain piece after
\* another, drawn with vertical lines and both side borders
C23_Witness ==
  \E i \in LinesOfKind("content") :
    LET parts == PartsOf(i)
    IN /\ VerticalDrawn /\ LeftDrawn /\ RightDrawn
       /\ \E m \in 2..Len(parts) : parts[m] = <<>>
       /\ \E m \in 2..Len(parts) : parts[m] # <<>>
       /\ i > 1 /\ lines[i - 1].kind = "content" /\ lines[i - 1].row = lines[i].row

\* C24: when draw_rows draws the separator after row i (row i's spans
\* registered, advance_row(i + 1) not yet called), every active span registered
\* at row r with rowspan k has remaining_rows = (r + k - 1) - i; so a column it
\* covers is classified as continuing iff the span's last row is greater than i,
\* as ending iff its last row is exactly i, and never as both.
AtSeparator == pc = "registered" /\ cur_row + 1 < Len(rows)

LastRowOf(e) == e.start_row + e.original_rowspan - 1

ClassifiedBy(e, info) ==
  /\ info.is_rowspan_continuing <=> LastRowOf(e) > cur_row
  /\ info.is_rowspan_ending <=> LastRowOf(e) = cur_row
  /\ ~(info.is_rowspan_continuing /\ info.is_rowspan_ending)

C24_RemainingRowsAtSeparator ==
  AtSeparator =>
    \A e \in span_tracker.active_spans :
      /\ e.remaining_rows = LastRowOf(e) - cur_row
      /\ \A ord \in IterOrders :
           \A c \in Visible \cap (e.start_col..(e.start_col + e.colspan - 1)) :
             ClassifiedBy(e, RowInfosUnder(ord)[c + 1])

\* C25: across a run of draw_rows a span key is never in the active map and the
\* ended map at the same time; a span registered at row r with rowspan k is
\* moved from active to ended by exactly the advance_row(r + k) call (not
\* earlier, and not at all if the table has fewer than r + k rows) with
\* end_row = r + k - 1, and an entry of the ended map is never removed or
\* changed afterwards.
KeyIn(S, e) == \E x \in S : SameKey(x, e.start_row, e.start_col)

ActiveThenEnded ==
  /\ \A a \in span_tracker'.active_spans : ~KeyIn(span_tracker'.ended_spans, a)
  /\ span_tracker.ended_spans \subseteq span_tracker'.ended_spans
  /\ \A e \in span_tracker'.ended_spans \ span_tracker.ended_spans :
       \E a \in span_tracker.active_spans :
         /\ SameKey(a, e.start_row, e.start_col)
         /\ e.end_row = a.start_row + a.original_rowspan - 1
         /\ e.colspan = a.colspan
         /\ cur_row' = a.start_row + a.original_rowspan
  /\ \A a \in span_tracker.active_spans :
       IF cur_row' # cur_row /\ cur_row' = a.start_row + a.original_rowspan
       THEN KeyIn(span_tracker'.ended_spans, a) /\ ~KeyIn(span_tracker'.active_spans, a)
       ELSE KeyIn(span_tracker'.active_spans, a) /\ ~KeyIn(span_tracker'.ended_spans, a)

C25_ActiveThenEnded == [][ActiveThenEnded]_vars

\* the run is over: a span of the header was moved to the ended map before the
\* last row, and a span that reaches past the last row is still active
C25_Witness ==
  /\ pc = "done"
  /\ \E e \in span_tracker.ended_spans : e.start_row = 0 /\ e.end_row + 1 < Len(rows)
  /\ \E a \in span_tracker.active_spans :
       a.start_row + a.original_rowspan > Len(rows)

\* C26: the header separator is drawn before the header's row-spans are
\* registered, against an empty tracker: none of its columns is rendered as
\* continuing-rowspan spaces or as an ending-rowspan run, even when a header
\* cell has rowspan > 1; a header row-span first influences the separator
\* drawn after the first data row.
HeaderSpans == {e \in span_tracker.active_spans : e.start_row = 0}

C26_HeaderSeparatorIgnoresSpans ==
  /\ pc = "header_registered" => span_tracker = SpanTrackerNew
  /\ \A i \in LinesOfKind("header_sep") :
       /\ \A k \in 1..Len(lines[i].segs) : lines[i].segs[k].part \notin {"space", "merged"}
       /\ \A ord \in IterOrders :
            lines[i].segs =
              draw_horizontal_lines(table, display_info, TRUE, 0, SpanTrackerNew, ord,
                                    FirstLineOf(1),
                                    IF Len(rows) > 1 THEN <<FirstLineOf(2)>> ELSE None)
  /\ (table.header.present /\ AtSeparator /\ cur_row = 1) =>
       \A e \in HeaderSpans : \A ord \in IterOrders :
         \A c \in Visible \cap (e.start_col..(e.start_col + e.colspan - 1)) :
           \/ RowInfosUnder(ord)[c + 1].is_rowspan_continuing
           \/ RowInfosUnder(ord)[c + 1].is_rowspan_ending

\* a header cell two columns wide with rowspan > 1: the header separator runs
\* under it, the separator after the first data row shows its ending run
C26_Witness ==
  /\ table.header.present
  /\ table.header.cells[1].rowspan > 1 /\ table.header.cells[1].colspan > 1
  /\ LinesOfKind("header_sep") # {}
  /\ \E i \in LinesOfKind("row_sep") :
       /\ lines[i].row = 1
       /\ \E k \in 1..Len(lines[i].segs) :
            lines[i].segs[k].part = "merged" /\ 1 \in lines[i].segs[k].cols

\* C27: provided the table's row-spans do not overlap, for every query the
\* border drawer makes (is_occupied while a data row is registered,
\* get_rowspan_start_at_row and get_rowspan_including_row for a separator,
\* get_rowspan_at_last_row for the bottom border) at most one entry of the
\* active map, and for get_rowspan_at_last_row of the active and ended maps
\* together, satisfies the query's predicate at the queried (row, col), so the
\* result does not depend on the iteration order.
NoOverlap ==
  \A s, t \in SpanRects :
    s # t => \/ (s.start_row..s.end_row) \cap (t.start_row..t.end_row) = {}
             \/ RectCols(s) \cap RectCols(t) = {}

AtMostOne(S) == Cardinality(S) <= 1

OrderFree(read(_)) == \A o1, o2 \in IterOrders : read(o1) = read(o2)

OccupiedQueries ==
  \A col \in Columns :
    /\ AtMostOne({e \in ActiveOver(col) : e.start_row < cur_row})
    /\ LET read(ord) == is_occupied(span_tracker, ord, cur_row, col) IN OrderFree(read)

SeparatorQueries ==
  \A col \in Columns :
    /\ AtMostOne({e \in ActiveOver(col) : e.start_row <= cur_row /\ e.remaining_rows > 0})
    /\ AtMostOne({e \in ActiveOver(col) : cur_row \in RowsOfSpan(e)})
    /\ LET read(ord) == get_rowspan_start_at_row(span_tracker, ord, cur_row, col)
       IN OrderFree(read)
    /\ LET read(ord) == get_rowspan_including_row(span_tracker, ord, cur_row, col)
       IN OrderFree(read)

BottomQueries ==
  \A col \in Columns :
    /\ Cardinality({e \in ActiveOver(col) : LastRowIndex \in RowsOfSpan(e)})
         + Cardinality({x \in EndedOver(col) : LastRowIndex \in x.start_row..x.end_row})
         <= 1
    /\ LET read(ord) == get_rowspan_at_last_row(span_tracker, ord, LastRowIndex, col)
       IN OrderFree(read)

C27_QueriesHaveOneMatch ==
  NoOverlap =>
    /\ (pc = "row" /\ ~(cur_row = 0 /\ table.header.present)) => OccupiedQueries
    /\ (pc = "row" /\ cur_row = 0 /\ table.header.present) => SeparatorQueries
    /\ AtSeparator => SeparatorQueries
    /\ (pc = "bottom" /\ rows # <<>>) => BottomQueries

\* the bottom border is about to be drawn: one column is found in the ended
\* map only and another in the active map only
C27_Witness ==
  /\ pc = "bottom" /\ NoOverlap
  /\ \E col \in Columns :
       /\ {e \in ActiveOver(col) : LastRowIndex \in RowsOfSpan(e)} = {}
       /\ {x \in EndedOver(col) : LastRowIndex \in x.start_row..x.end_row} # {}
  /\ \E col \in Columns :
       /\ {e \in ActiveOver(col) : LastRowIndex \in RowsOfSpan(e)} # {}
       /\ {x \in EndedOver(col) : LastRowIndex \in x.start_row..x.end_row} = {}

\* C28: a row-span whose last row is strictly before the last rendered row has
\* no effect on the bottom border: it is retained in the ended map, but
\* get_rowspan_at_last_row(last_row, col) does not return it; the result for
\* each of its columns is None unless another row-span that includes the last
\* row covers the column, and the columns with result None are drawn with the
\* ordinary intersection and colspan-merge rule.
BottomIsDue == pc \in {"bottom", "done"} /\ rows # <<>>

EndedEarly == {x \in span_tracker.ended_spans : x.end_row < LastRowIndex}

LastRowRead(ord, col) == get_rowspan_at_last_row(span_tracker, ord, LastRowIndex, col)

DrawnOrdinarily(segs, p) ==
  /\ \E k \in SegsOf(segs, {"fill"}, p) :
       segs[k] = Seg({p}, "fill", Repeat(style_or_default(table, "BottomBorder"),
                                         ColWidth(display_info, p)))
  /\ LET joints == SegsOf(segs, {"joint", "merged"}, p)
     IN IF p = Leftmost(Visible) THEN joints = {}
        ELSE /\ Cardinality(joints) = 1
             /\ \A k \in joints :
                  /\ segs[k].cols = {p}
                  /\ segs[k].text = <<style_or_default(table,
                                        IF BottomJointMerges(p)
                                        THEN "BottomBorderColspanIntersections"
                                        ELSE "BottomBorderIntersections")>>

EndedEarlyAreKept ==
  \A s \in LaidOut(AllRows(table), 1, {}) :
    s.end_row < LastRowIndex => s \in span_tracker.ended_spans

\* the claim as stated: the result is None for each column of the span
C28_EndedSpanReadsNone ==
  BottomIsDue =>
    /\ EndedEarlyAreKept
    /\ \A x \in EndedEarly : \A col \in RectCols(x) \cap Columns :
         /\ \A ord \in IterOrders : LastRowRead(ord, col) = None
         /\ \A i \in LinesOfKind("bottom") :
              col \in Visible => DrawnOrdinarily(lines[i].segs, col)

C28_EndedSpanLeavesBottomAlone ==
  BottomIsDue =>
    /\ EndedEarlyAreKept
    /\ \A x \in EndedEarly : \A col \in RectCols(x) \cap Columns :
         LET others == {s \in Covering(LastRowIndex) : col \in RectCols(s)}
         IN /\ \A ord \in IterOrders :
                 /\ LastRowRead(ord, col) # <<x.start_row, x.start_col, x.colspan>>
                 /\ ReadsOneOf(LastRowRead(ord, col), others)
            /\ \A i \in LinesOfKind("bottom") :
                 (col \in Visible /\ others = {}) => DrawnOrdinarily(lines[i].segs, col)

\* the bottom border is drawn under two spans that ended before the last row:
\* a column of one is free in the last row and gets its ordinary joint, a
\* column of the other belongs to a span that includes the last row
C28_Witness ==
  /\ pc = "done" /\ LinesOfKind("bottom") # {}
  /\ \E x \in EndedEarly : \E col \in RectCols(x) \cap Visible :
       LastRowRead("asc", col) = None /\ col # Leftmost(Visible)
  /\ \E x \in EndedEarly : \E col \in RectCols(x) \cap Visible :
       LastRowRead("asc", col) # None

\* C29: whenever the right border is drawn, every header or data separator
\* ends with the right intersection glyph (RightHeaderIntersection or
\* RightBorderIntersections), also when the last visible column is covered by
\* a continuing row-span and rendered as spaces; unlike the left edge, the
\* right edge never switches to the plain vertical border glyph.
RightIntersectionOf(i) ==
  style_or_default(table, IF lines[i].kind = "header_sep" THEN "RightHeaderIntersection"
                          ELSE "RightBorderIntersections")

LastSeg(i) == lines[i].segs[Len(lines[i].segs)]

BlankAtRightEnd(i) ==
  /\ Len(lines[i].segs) > 1
  /\ lines[i].segs[Len(lines[i].segs) - 1].part = "space"

C29_RightEdgeIsIntersection ==
  RightDrawn =>
    \A i \in LinesOfKind("header_sep") \cup LinesOfKind("row_sep") :
      /\ lines[i].segs # <<>>
      /\ LastSeg(i) = Seg({}, "edge", <<RightIntersectionOf(i)>>)
      /\ "RightBorder" \in table.style => LastSeg(i).text # <<"RightBorder">>

\* a data separator whose blank run reaches the right end: the left edge is
\* the LeftBorder glyph, the right edge the intersection
C29_Witness ==
  /\ RightDrawn /\ "RightBorder" \in table.style
  /\ LinesOfKind("header_sep") # {}
  /\ \E i \in LinesOfKind("row_sep") :
       /\ BlankAtRightEnd(i)
       /\ lines[i].segs[1] = Seg({}, "edge", <<"LeftBorder">>)
       /\ LastSeg(i).text = <<"RightBorderIntersections">>

====
